---- MODULE Spec2Model ----
(***************************************************************************)
(* csvista: CSV import into a per-project IndexedDB object store and the   *)
(* paged / sorted / filtered row query served from it.                     *)
(*                                                                         *)
(* The repository holds two generations of dataService:                    *)
(*   "idx"   - the Dexie generation: one index per CSV field, queries run  *)
(*             on the indexes (startsWithIgnoreCase, orderBy, sortBy);     *)
(*   "cache" - the idb generation: rows are read once into                 *)
(*             projectRowsCache and filtered / sorted in memory.           *)
(* Both are modelled; the variable engine says which one a behaviour runs. *)
(*                                                                         *)
(* Text is modelled as a sequence of one-character strings so that trim,   *)
(* case folding, prefix / substring tests and the two orderings (code unit *)
(* order of IndexedDB keys, localeCompare with numeric + base sensitivity) *)
(* are computed, not assumed.                                              *)
(***************************************************************************)
EXTENDS Integers, Sequences, FiniteSets, TLC

\* ------------------------------------------------------------------ bounds
MaxRows == 2
MaxPage == 2
MaxPageSize == 2
\* Calls started in one behaviour of the interleaved specification.
MaxOps == 3

\* ------------------------------------------------------------------- text
\* UTF-16 code unit of the characters used by the model.
CodeUnit(c) ==
  CASE c = " " -> 32
    [] c = "(" -> 40
    [] c = ")" -> 41
    [] c = "0" -> 48
    [] c = "1" -> 49
    [] c = "2" -> 50
    [] c = "A" -> 65
    [] c = "B" -> 66
    [] c = "E" -> 69
    [] c = "a" -> 97
    [] c = "b" -> 98
    [] c = "d" -> 100
    [] c = "e" -> 101
    [] c = "i" -> 105
    [] c = "m" -> 109
    [] c = "p" -> 112
    [] c = "t" -> 116
    [] c = "y" -> 121

ToLower(c) ==
  IF c = "A" THEN "a" ELSE IF c = "B" THEN "b" ELSE IF c = "E" THEN "e" ELSE c

ToLowerCase(s) == [i \in 1..Len(s) |-> ToLower(s[i])]

IsDigit(c) == c \in {"0", "1", "2"}

DigitValue(c) == CodeUnit(c) - 48

RECURSIVE TrimStart(_)
TrimStart(s) == IF s # <<>> /\ Head(s) = " " THEN TrimStart(Tail(s)) ELSE s

RECURSIVE TrimEnd(_)
TrimEnd(s) ==
  IF s # <<>> /\ s[Len(s)] = " " THEN TrimEnd(SubSeq(s, 1, Len(s) - 1)) ELSE s

\* String.prototype.trim
Trim(s) == TrimEnd(TrimStart(s))

\* String.prototype.startsWith
StartsWith(s, prefix) ==
  /\ Len(prefix) <= Len(s)
  /\ SubSeq(s, 1, Len(prefix)) = prefix

\* String.prototype.includes
Includes(s, part) ==
  \E i \in 0..(Len(s) - Len(part)) : SubSeq(s, i + 1, i + Len(part)) = part

\* Order of two strings as IndexedDB keys and under the JavaScript operator <:
\* code unit by code unit, a proper prefix first.
RECURSIVE CodeUnitLess(_, _)
CodeUnitLess(s, t) ==
  IF t = <<>> THEN FALSE
  ELSE IF s = <<>> THEN TRUE
  ELSE IF CodeUnit(Head(s)) # CodeUnit(Head(t))
       THEN CodeUnit(Head(s)) < CodeUnit(Head(t))
       ELSE CodeUnitLess(Tail(s), Tail(t))

\* Length of the run of digits at the start of s.
RECURSIVE DigitRun(_)
DigitRun(s) == IF s # <<>> /\ IsDigit(Head(s)) THEN 1 + DigitRun(Tail(s)) ELSE 0

RECURSIVE NumberOf(_, _)
NumberOf(s, acc) ==
  IF s = <<>> THEN acc ELSE NumberOf(Tail(s), 10 * acc + DigitValue(Head(s)))

\* Primary collation weight of a character: space, then digits, then letters
\* with upper and lower case alike (sensitivity "base").
BaseWeight(c) == CodeUnit(ToLower(c))

\* left.localeCompare(right, undefined, {numeric: true, sensitivity: 'base'}):
\* -1, 0 or 1; runs of digits compare by their numeric value.
RECURSIVE LocaleCompare(_, _)
LocaleCompare(s, t) ==
  IF s = <<>> /\ t = <<>> THEN 0
  ELSE IF s = <<>> THEN -1
  ELSE IF t = <<>> THEN 1
  ELSE IF IsDigit(Head(s)) /\ IsDigit(Head(t))
       THEN LET ds == DigitRun(s)
                dt == DigitRun(t)
                ns == NumberOf(SubSeq(s, 1, ds), 0)
                nt == NumberOf(SubSeq(t, 1, dt), 0)
            IN IF ns < nt THEN -1
               ELSE IF ns > nt THEN 1
               ELSE LocaleCompare(SubSeq(s, ds + 1, Len(s)), SubSeq(t, dt + 1, Len(t)))
       ELSE IF BaseWeight(Head(s)) < BaseWeight(Head(t)) THEN -1
       ELSE IF BaseWeight(Head(s)) > BaseWeight(Head(t)) THEN 1
       ELSE LocaleCompare(Tail(s), Tail(t))

\* left.localeCompare(right, undefined, {sensitivity: 'base'}): -1, 0 or 1;
\* digits compare as characters.
RECURSIVE LocaleCompareBase(_, _)
LocaleCompareBase(s, t) ==
  IF s = <<>> /\ t = <<>> THEN 0
  ELSE IF s = <<>> THEN -1
  ELSE IF t = <<>> THEN 1
  ELSE IF BaseWeight(Head(s)) < BaseWeight(Head(t)) THEN -1
  ELSE IF BaseWeight(Head(s)) > BaseWeight(Head(t)) THEN 1
  ELSE LocaleCompareBase(Tail(s), Tail(t))

\* ------------------------------------------------------------ rows, keys
\* JavaScript undefined for an optional string (a field name or a filter
\* value); it is not a sequence of characters of the alphabet.
Undefined == <<"undefined">>

\* Truthiness of an optional string: undefined and '' are falsy.
Truthy(s) == s # Undefined /\ s # <<>>

\* A row (Record<string, string>) is the sequence of its entries in key
\* order; Object.keys and Object.entries enumerate it in that order.
ObjectKeys(row) == [i \in 1..Len(row) |-> row[i].k]

HasKey(row, key) == \E i \in 1..Len(row) : row[i].k = key

\* row[key] ?? ''
ValueOrEmpty(row, key) ==
  IF HasKey(row, key) THEN row[CHOOSE i \in 1..Len(row) : row[i].k = key].v ELSE <<>>

\* row[key], Undefined when the row has no such key
ValueOf(row, key) ==
  IF HasKey(row, key) THEN row[CHOOSE i \in 1..Len(row) : row[i].k = key].v
  ELSE Undefined

Reverse(seq) == [i \in 1..Len(seq) |-> seq[Len(seq) + 1 - i]]

\* Array.prototype.slice(start, end) with 0 <= start: clamped to the array.
Slice(seq, start, end) ==
  LET FromEnd(n) == IF n >= 0 THEN n ELSE IF Len(seq) + n > 0 THEN Len(seq) + n ELSE 0
      lo == FromEnd(start)
      hi == IF FromEnd(end) < Len(seq) THEN FromEnd(end) ELSE Len(seq)
  IN IF lo >= hi THEN <<>> ELSE SubSeq(seq, lo + 1, hi)

\* The first argument as it is (no Math.max).
Unclamped(a, b) == a

Max(a, b) == IF a > b THEN a ELSE b

\* A stable sort of seq under a strict weak order, given as the function that
\* tells for positions <<i, j>> whether seq[i] is before seq[j]
\* (Array.prototype.sort is stable; an index cursor yields equal keys in
\* primary key order).
StableSort(seq, before) ==
  LET n == Len(seq)
      rank(i) == 1 + Cardinality({j \in 1..n :
                       \/ before[j, i]
                       \/ (~before[i, j] /\ j < i)})
  IN [k \in 1..n |-> seq[CHOOSE i \in 1..n : rank(i) = k]]

IdName == <<"i", "d">>

\* The primary key of a stored record: n > 0 is a key made by the store's key
\* generator (a number), n = 0 is the text s taken from the row's own id.
GeneratedKey(n) == [n |-> n, s |-> <<>>]
TextKey(s) == [n |-> 0, s |-> s]

\* IndexedDB key order: every number before every string, strings by code unit.
KeyLess(k1, k2) ==
  IF k1.n > 0 /\ k2.n > 0 THEN k1.n < k2.n
  ELSE IF k1.n > 0 THEN TRUE
  ELSE IF k2.n > 0 THEN FALSE
  ELSE CodeUnitLess(k1.s, k2.s)

\* ------------------------------------------------------------- CSV input
\* JavaScript null as a cell value.
Null == <<"null">>

\* What Papa.parse is called on: the header cells, the cells of each data
\* line, and the structural errors the parser reports for the text.
\* Papa.parse(csvText, {header: true, transformHeader: h => h.trim()}): one
\* record per data line, keyed by the trimmed header cells.
PapaParse(csv) ==
  [data |-> [i \in 1..Len(csv.lines) |->
               [obj |-> TRUE,
                entries |-> [j \in 1..Len(csv.header) |->
                               [k |-> Trim(csv.header[j]), v |-> csv.lines[i][j]]]]],
   errors |-> csv.errors]

\* The value as it is (no conversion of null and undefined).
AsItIs(value) == value

\* value == null ? '' : String(value)
ToText(value) == IF value = Null \/ value = Undefined THEN <<>> ELSE value

NormalizeEntries(entries) ==
  LET kept == SelectSeq(entries, LAMBDA e : Trim(e.k) # <<>>)
  IN [i \in 1..Len(kept) |-> [k |-> kept[i].k, v |-> ToText(kept[i].v)]]

normalizeCsvRows(rows) ==
  LET objects == SelectSeq(rows, LAMBDA r : r.obj)
      mapped == [i \in 1..Len(objects) |-> NormalizeEntries(objects[i].entries)]
  IN SelectSeq(mapped, LAMBDA row : Len(row) > 0)

\* rows.length > 0 ? Object.keys(rows[0]) : []
FieldsOf(rows) == IF Len(rows) > 0 THEN ObjectKeys(rows[1]) ELSE <<>>

\* ---------------------------------------------------------- object stores
\* An object store {keyPath: 'id', autoIncrement: true}: its index names, its
\* records in primary key order, and the next value of its key generator.
NoStore == [exists |-> FALSE, indexes |-> {}, recs |-> <<>>, nextKey |-> 1]

NewStore(indexes) == [exists |-> TRUE, indexes |-> indexes, recs |-> <<>>, nextKey |-> 1]

\* IDBObjectStore.clear: the records go, the key generator keeps its value.
StoreClear(store) == [store EXCEPT !.recs = <<>>]

\* IDBObjectStore.add(row): the key is the row's id if it has one, else the
\* next generated number; a key already in the store is a ConstraintError.
StoreAdd(store, row) ==
  LET own == HasKey(row, IdName)
      key == IF own THEN TextKey(ValueOf(row, IdName)) ELSE GeneratedKey(store.nextKey)
      dup == \E i \in 1..Len(store.recs) : store.recs[i].key = key
      added == Append(store.recs, [key |-> key, row |-> row])
  IN IF dup THEN [ok |-> FALSE, store |-> store]
     ELSE [ok |-> TRUE,
           store |-> [store EXCEPT
                        !.recs = StableSort(added,
                                   [i \in 1..Len(added), j \in 1..Len(added) |->
                                      KeyLess(added[i].key, added[j].key)]),
                        !.nextKey = IF own THEN @ ELSE @ + 1]]

\* for (const row of rows) store.add(row), stopping at the first failure
RECURSIVE StoreAddAll(_, _)
StoreAddAll(store, rows) ==
  IF rows = <<>> THEN [ok |-> TRUE, store |-> store]
  ELSE LET one == StoreAdd(store, Head(rows))
       IN IF one.ok THEN StoreAddAll(one.store, Tail(rows)) ELSE one

\* An index key path must be an identifier (no space, no leading digit);
\* createIndex throws on any other and the import ignores the throw.
ValidKeyPath(name) ==
  /\ name # <<>>
  /\ ~IsDigit(name[1])
  /\ \A i \in 1..Len(name) : name[i] # " "

\* Array.from(new Set(fields.map(f => f.trim()).filter(Boolean))).sort(), as
\* the set of its (distinct, sorted) elements.
normalizeIndexFields(fields) == {Trim(fields[i]) : i \in 1..Len(fields)} \ {<<>>}

hasSameProjectStoreSchema(store, fields) ==
  /\ store.exists
  /\ store.indexes = normalizeIndexFields(fields)

\* The versionchange transaction of openIndexedDb: drop storeToDelete, create
\* storeToCreate with one index per valid field and seed it.  A failed add
\* aborts the transaction: the database keeps its old version and stores.
UpgradeStore(store, deleteIt, indexFields, rowsToSeed) ==
  LET afterDelete == IF deleteIt /\ store.exists THEN NoStore ELSE store
      created == NewStore({f \in indexFields : ValidKeyPath(f)})
      seeded == StoreAddAll(created, rowsToSeed)
  IN IF afterDelete.exists THEN [ok |-> TRUE, store |-> afterDelete]
     ELSE IF seeded.ok THEN seeded
     ELSE [ok |-> FALSE, store |-> store]

\* The readwrite transaction of a same-schema import: clear, then add every
\* row; a failed add aborts the transaction and the store is as before.
ReplaceRows(store, rows) ==
  LET added == StoreAddAll(StoreClear(store), rows)
  IN IF added.ok THEN added ELSE [ok |-> FALSE, store |-> store]

\* ---------------------------------------------------------------- queries
\* value.replaceAll("'", "''")
RECURSIVE EscapeQuotes(_)
EscapeQuotes(s) ==
  IF s = <<>> THEN <<>>
  ELSE IF Head(s) = "'" THEN <<"'", "'">> \o EscapeQuotes(Tail(s))
  ELSE <<Head(s)>> \o EscapeQuotes(Tail(s))

\* The LIKE pattern of the description: value% in the index engine, %value%
\* in the cache engine.
LikePattern(eng, value) ==
  IF eng = "idx" THEN EscapeQuotes(value) \o <<"%">>
  ELSE <<"%">> \o EscapeQuotes(value) \o <<"%">>

\* buildSqlLikeQuery: the parts of the description, in order, before the join.
buildSqlLikeQuery(eng, projectId, params) ==
  [from |-> projectId,
   where |-> IF Truthy(params.filterField) /\ Truthy(params.filterValue)
             THEN <<[field |-> params.filterField,
                     like |-> LikePattern(eng, params.filterValue)]>>
             ELSE <<>>,
   orderBy |-> IF Truthy(params.sortField)
               THEN <<[field |-> params.sortField,
                       dir |-> IF params.sortDirection = "desc" THEN "DESC" ELSE "ASC"]>>
               ELSE <<>>,
   limit |-> Max(params.pageSize, 1),
   offset |-> (Max(params.page, 1) - 1) * Max(params.pageSize, 1)]

\* params.filterValue ?? '' (the value as it was typed)
RawFilterValue(params) ==
  IF params.filterValue = Undefined THEN <<>> ELSE params.filterValue

\* params.filterValue?.trim() ?? ''
NormalizedFilterValue(params) ==
  IF params.filterValue = Undefined THEN <<>> ELSE Trim(params.filterValue)

Returned(rows, fields, total, sql) ==
  [status |-> "ok", rows |-> rows, fields |-> fields, total |-> total, sql |-> sql]

NoSql == [from |-> "", where |-> <<>>, orderBy |-> <<>>, limit |-> 0, offset |-> 0]

\* No result (the operation was not a query).
NoResult == [status |-> "none", rows |-> <<>>, fields |-> <<>>, total |-> 0, sql |-> NoSql]

\* A rejected promise: the query throws instead of returning.
Thrown == [status |-> "error", rows |-> <<>>, fields |-> <<>>, total |-> 0, sql |-> NoSql]

\* Drop the id entry and stringify (toDisplayRows and sanitizeStoredRows do
\* the same to a stored record).
StripId(row) == SelectSeq(row, LAMBDA e : e.k # IdName)

toDisplayRows(recs) == [i \in 1..Len(recs) |-> StripId(recs[i].row)]

sanitizeStoredRows(recs) == [i \in 1..Len(recs) |-> StripId(recs[i].row)]

\* ---- cache engine
\* [...rows].sort((l, r) => l[field].localeCompare(r[field], ...) * multiplier)
sortRows(rows, field, direction) ==
  LET multiplier == IF direction = "desc" THEN -1 ELSE 1
  IN StableSort(rows, [left \in 1..Len(rows), right \in 1..Len(rows) |->
       LocaleCompare(ValueOrEmpty(rows[left], field), ValueOrEmpty(rows[right], field))
         * multiplier < 0])

NoEntry == [cached |-> FALSE, rows |-> <<>>, fields |-> <<>>]

CacheEntry(rows, fields) == [cached |-> TRUE, rows |-> rows, fields |-> fields]

\* loadAndCacheProjectRows: the entry read from the store (db.getAll returns
\* the records in primary key order).
LoadedEntry(store) ==
  IF ~store.exists THEN CacheEntry(<<>>, <<>>)
  ELSE LET rows == sanitizeStoredRows(store.recs)
       IN CacheEntry(rows, FieldsOf(rows))

\* queryProjectRows of the cache engine on a cache entry.
CacheQuery(entry, projectId, params) ==
  LET normalizedFilterValue == NormalizedFilterValue(params)
      queryText == ToLowerCase(normalizedFilterValue)
      filtered ==
        IF Truthy(params.filterField) /\ normalizedFilterValue # <<>>
        THEN SelectSeq(entry.rows, LAMBDA row :
               Includes(ToLowerCase(ValueOrEmpty(row, params.filterField)), queryText))
        ELSE entry.rows
      processedRows ==
        IF Truthy(params.sortField)
        THEN sortRows(filtered, params.sortField,
                      IF params.sortDirection = "undefined" THEN "asc"
                      ELSE params.sortDirection)
        ELSE filtered
      page == Max(params.page, 1)
      pageSize == Max(params.pageSize, 1)
      startIndex == (page - 1) * pageSize
  IN Returned(Slice(processedRows, startIndex, startIndex + pageSize),
              entry.fields, Len(processedRows),
              buildSqlLikeQuery("cache", projectId, params))

\* ---- index engine
\* The schema Dexie is opened with (openRuntimeDexie): the primary key ++id and
\* the store's index names.  A where / orderBy on any other key path rejects.
Indexed(schema, field) == field = IdName \/ field \in schema

\* The value a stored record has at a key path: its primary key at id, the
\* row's own value elsewhere (Undefined when the row lacks the key).
IsText(rec, field) ==
  IF field = IdName THEN rec.key.n = 0 ELSE HasKey(rec.row, field)

TextAt(rec, field) ==
  IF field = IdName THEN rec.key.s ELSE ValueOf(rec.row, field)

\* A cursor over the index on field: the records that have a key there, by
\* that key and then by primary key.
IndexScan(store, field) ==
  IF field = IdName THEN store.recs
  ELSE LET keyed == SelectSeq(store.recs, LAMBDA rec : HasKey(rec.row, field))
       IN StableSort(keyed, [i \in 1..Len(keyed), j \in 1..Len(keyed) |->
            CodeUnitLess(TextAt(keyed[i], field), TextAt(keyed[j], field))])

\* table.where(field).startsWithIgnoreCase(prefix)
WhereStartsWithIgnoreCase(store, field, prefix) ==
  SelectSeq(IndexScan(store, field), LAMBDA rec :
    /\ IsText(rec, field)
    /\ StartsWith(ToLowerCase(TextAt(rec, field)), ToLowerCase(prefix)))

\* sortBy with the comparison the wrong way round.
SortByDescending(recs, field) ==
  StableSort(recs, [i \in 1..Len(recs), j \in 1..Len(recs) |->
    IF field = IdName THEN KeyLess(recs[j].key, recs[i].key)
    ELSE /\ HasKey(recs[i].row, field)
         /\ HasKey(recs[j].row, field)
         /\ CodeUnitLess(TextAt(recs[j], field), TextAt(recs[i], field))])

\* Collection.sortBy(field): the collection's array, stably sorted by the
\* operator < on the values at field (never true when one is undefined).
SortBy(recs, field) ==
  StableSort(recs, [i \in 1..Len(recs), j \in 1..Len(recs) |->
    IF field = IdName THEN KeyLess(recs[i].key, recs[j].key)
    ELSE /\ HasKey(recs[i].row, field)
         /\ HasKey(recs[j].row, field)
         /\ CodeUnitLess(TextAt(recs[i], field), TextAt(recs[j], field))])

\* The branch of queryProjectRows a request takes.
QueryBranch(params) ==
  LET hasFilter == Truthy(params.filterField) /\ NormalizedFilterValue(params) # <<>>
      hasSort == Truthy(params.sortField)
  IN IF hasFilter /\ hasSort /\ params.filterField = params.sortField THEN "combined"
     ELSE IF hasFilter /\ hasSort THEN "filterThenSort"
     ELSE IF hasFilter THEN "filter"
     ELSE IF hasSort THEN "sort"
     ELSE "all"

\* Whether the collection of the branch can be built on the opened schema.
BranchIndexed(schema, params) ==
  LET branch == QueryBranch(params)
  IN /\ branch \in {"combined", "filterThenSort", "filter"}
          => Indexed(schema, params.filterField)
     /\ branch = "sort" => Indexed(schema, params.sortField)

\* limit without offset: every page is the first one.
LimitOnly(recs, offset, pageSize) == Slice(recs, 0, pageSize)

\* Collection.offset(offset).limit(pageSize).toArray()
OffsetLimit(recs, offset, pageSize) == Slice(recs, offset, offset + pageSize)

\* The first await of a branch: total.
IdxCount(store, params) ==
  LET branch == QueryBranch(params)
  IN IF branch \in {"combined", "filterThenSort", "filter"}
     THEN Len(WhereStartsWithIgnoreCase(store, params.filterField,
                                        NormalizedFilterValue(params)))
     ELSE Len(store.recs)

\* Collection.reverse() of the combined and sort branches, Array.reverse() of
\* the filter-then-sort branch.
Arrange(recs, isDesc) == IF isDesc THEN Reverse(recs) ELSE recs

\* The second await of a branch: the page of display rows.
IdxPageBy(branch, store, params) ==
  LET page == Max(params.page, 1)
      pageSize == Max(params.pageSize, 1)
      offset == (page - 1) * pageSize
      isDesc == params.sortDirection = "desc"
      matching == WhereStartsWithIgnoreCase(store, params.filterField,
                                            NormalizedFilterValue(params))
  IN CASE branch = "combined" ->
            toDisplayRows(OffsetLimit(Arrange(matching, isDesc), offset, pageSize))
       [] branch = "filterThenSort" ->
            toDisplayRows(Slice(Arrange(SortBy(matching, params.sortField), isDesc),
                                offset, offset + pageSize))
       [] branch = "filter" ->
            toDisplayRows(OffsetLimit(matching, offset, pageSize))
       [] branch = "sort" ->
            toDisplayRows(OffsetLimit(Arrange(IndexScan(store, params.sortField), isDesc),
                                      offset, pageSize))
       [] OTHER ->
            toDisplayRows(OffsetLimit(store.recs, offset, pageSize))

IdxPage(store, params) == IdxPageBy(QueryBranch(params), store, params)

\* What queryProjectRows of the index engine returns from a total and a page.
IdxResult(total, paginatedRows, projectId, params) ==
  Returned(paginatedRows, FieldsOf(paginatedRows), total,
           buildSqlLikeQuery("idx", projectId, params))

\* The result for a project without a store.
EmptyResult(eng, projectId, params) ==
  Returned(<<>>, <<>>, 0, buildSqlLikeQuery(eng, projectId, params))

\* ------------------------------------------------------ whole operations
\* importRowsIntoProjectStore (index engine) run without interleaving.
IdxImportStore(store, fields, rows) ==
  IF hasSameProjectStoreSchema(store, fields)
  THEN ReplaceRows(store, rows)
  ELSE UpgradeStore(store, store.exists, normalizeIndexFields(fields), rows)

\* queryProjectRows without the hasProjectStore check.
IdxQueryUnchecked(store, projectId, params) ==
  IF ~BranchIndexed(store.indexes, params) THEN Thrown
  ELSE IdxResult(IdxCount(store, params), IdxPage(store, params), projectId, params)

\* queryProjectRows (index engine) run without interleaving.
IdxQuery(store, projectId, params) ==
  IF ~store.exists THEN EmptyResult("idx", projectId, params)
  ELSE IF ~BranchIndexed(store.indexes, params) THEN Thrown
  ELSE IdxResult(IdxCount(store, params), IdxPage(store, params), projectId, params)

\* ensureProjectStore (cache engine): a store without indexes is created when
\* the project has none.
EnsuredStore(store) == IF store.exists THEN store ELSE NewStore({})

\* ------------------------------------------------------------------ state
VARIABLES
  engine,     \* "idx" or "cache": the generation of dataService that runs
  dbVersion,  \* version of the IndexedDB database
  stores,     \* project id -> object store of the project
  cache,      \* project id -> entry of projectRowsCache (cache engine)
  otherTab,   \* another consumer holds a connection it does not close
  leaked,     \* a connection of this page was opened and never closed
  pending,    \* an open request that was reported blocked and is still queued
  imp,        \* the importCsv call in flight whose turn it is, at its await
  parked,     \* a second importCsv call in flight, waiting at its await
  qry,        \* the queryProjectRows call in flight, at its await
  ops,        \* calls started so far
  out,        \* the call that completed last, with what it returned
  dataset,    \* project id -> rows and fields of the last successful import
  failed,     \* the import that last reported a storage failure, and the
              \* project's store before it
  view,       \* ProjectPage: whether it is mounted, and its request state
  loads,      \* ProjectPage: the loadRows calls in flight, each with the
              \* request it was issued for and its isCancelled flag
  shown,      \* ProjectPage: rows, fields, totalRows, sqlPreview, errorMessage
  chart,      \* the last call of buildFieldCountChartData: rows, field, data
  norm,       \* the last call of normalizeCsvRows: records, rows, fields
  imports,    \* ProjectPage: imports that have succeeded since it was opened
  table,      \* the rows and fields in the row store of the project whose page
              \* with charts is open
  board,      \* ProjectPage with charts: its request state, what it displays,
              \* its charts
  fetches,    \* ProjectPage with charts: the loadRows calls in flight
  dbPromise,  \* db.ts: the connection of dbPromise, 0 for null
  conns,      \* db.ts: the connections opened so far, open or closed
  projectRecord, \* the record of the project in the projects store
  tasks       \* the calls of projectService, each at its await

\* The state of the page component.
pageVars == <<view, loads, shown>>

\* The state of the charts, of the normalizer and the count of page imports.
\* The state of the project page with charts.
boardVars == <<table, board, fetches>>

\* The state of the project service.
serviceVars == <<dbPromise, conns, projectRecord, tasks>>

auxVars == <<chart, norm, imports, boardVars, serviceVars>>

vars == <<engine, dbVersion, stores, cache, otherTab, leaked, pending, imp, parked,
          qry, ops, out, dataset, failed, pageVars, auxVars>>

Projects == {"p", "q"}

NoParams == [page |-> 1, pageSize |-> 1, sortField |-> Undefined,
             sortDirection |-> "undefined", filterField |-> Undefined,
             filterValue |-> Undefined]

NoStores == [p \in Projects |-> NoStore]

NoCache == [p \in Projects |-> NoEntry]

\* dataset[p]: what the last successful import into p wrote, whether it
\* replaced an earlier import, and the fields of that earlier import.
NoDataset == [imported |-> FALSE, rows |-> <<>>, fields |-> <<>>,
              superseded |-> FALSE, oldFields |-> <<>>]

Imported(old, rows, fields) ==
  [imported |-> TRUE, rows |-> rows, fields |-> fields,
   superseded |-> old.imported, oldFields |-> old.fields]

\* out: before and cacheBefore are the stores and the cache when the call
\* started, seen the states the project's store went through during the call,
\* alone whether no import was in flight or queued at any time of the call.
Outcome(op, p, status, message, params, result, before, cacheBefore, seen, alone) ==
  [op |-> op, project |-> p, status |-> status, message |-> message,
   params |-> params, result |-> result, before |-> before,
   cacheBefore |-> cacheBefore, seen |-> seen, alone |-> alone]

NoOut == Outcome("none", "", "", "", NoParams, NoResult, NoStores, NoCache, {}, TRUE)

\* imp: the position of importCsv, what it parsed, and what it read from the
\* database it opened (hasStore, indexes, version + 1).
IdleImport ==
  [pc |-> "idle", project |-> "", errors |-> <<>>, rows |-> <<>>, fields |-> <<>>,
   hasStore |-> FALSE, indexes |-> {}, version |-> 0,
   before |-> NoStores, cacheBefore |-> NoCache]

\* qry: the position of queryProjectRows, the schema and version its runtime
\* Dexie was declared with, the state of that connection and the total read.
IdleQuery ==
  [pc |-> "idle", project |-> "", params |-> NoParams, schema |-> {},
   version |-> 0, conn |-> "none", total |-> 0,
   seen |-> {}, alone |-> TRUE, before |-> NoStores, cacheBefore |-> NoCache]

NoFailure == [active |-> FALSE, project |-> "", before |-> NoStore]

NoPending ==
  [active |-> FALSE, project |-> "", version |-> 0, hasStore |-> FALSE,
   fields |-> {}, rows |-> <<>>]

\* useState(1), useState(''), useState('asc'), useState(''), useState(''): the
\* request state of a page that has not loaded its project yet.
InitialView ==
  [mounted |-> FALSE, page |-> 1, sortField |-> <<>>, sortDirection |-> "asc",
   filterField |-> <<>>, appliedFilterValue |-> <<>>]

\* useState([]), useState([]), useState(0), useState(''), useState('')
NothingShown ==
  [rows |-> <<>>, fields |-> <<>>, total |-> 0, sql |-> NoSql, errorMessage |-> ""]

\* No records have been normalized.
NotNormalized == [done |-> FALSE, data |-> <<>>, rows |-> <<>>, fields |-> <<>>]

\* No chart has been built.
NoChart == [built |-> FALSE, rows |-> <<>>, field |-> <<>>, data |-> <<>>]

\* The row store of the project before anything is imported.
NoTable == [rows |-> <<>>, fields |-> <<>>]

\* The state of the page when it is created: the request state, what is
\* displayed, the charts, the number of charts created so far (createChartId),
\* and the list last handed to updateProjectCharts.
InitialBoard ==
  [mounted |-> FALSE, page |-> 1, sortField |-> <<>>, sortDirection |-> "asc",
   filterField |-> <<>>, appliedFilterValue |-> <<>>, refreshKey |-> 0,
   rows |-> <<>>, filteredRows |-> <<>>, fields |-> <<>>, totalRows |-> 0,
   errorMessage |-> "", charts |-> <<>>, created |-> 0, saved |-> <<>>]

\* Calls of projectService in one behaviour.
MaxTasks == 2

\* The project the page is open on, as createProject stored it (its id and
\* its dates stay as they are and are left out).
StoredProject == [name |-> <<"a">>, description |-> <<>>, charts |-> <<>>]

\* A call of projectService that has not started: its operation, its position,
\* its arguments after trimming, the connection it got, the record it read
\* and how it ended.
IdleTask ==
  [op |-> "none", pc |-> "idle", name |-> <<>>, description |-> <<>>, charts |-> <<>>,
   db |-> 0, existing |-> StoredProject, outcome |-> "pending"]

Init ==
  /\ engine \in {"idx", "cache"}
  /\ dbVersion = 1
  /\ stores = NoStores
  /\ cache = NoCache
  /\ otherTab = FALSE
  /\ leaked = FALSE
  /\ pending = NoPending
  /\ imp = IdleImport
  /\ parked = IdleImport
  /\ qry = IdleQuery
  /\ ops = 0
  /\ out = NoOut
  /\ dataset = [p \in Projects |-> NoDataset]
  /\ failed = NoFailure
  /\ view = InitialView
  /\ loads = {}
  /\ shown = NothingShown
  /\ chart = NoChart
  /\ norm = NotNormalized
  /\ imports = 0
  /\ table = NoTable
  /\ board = InitialBoard
  /\ fetches = {}
  /\ dbPromise = 0
  /\ conns = <<>>
  /\ projectRecord = StoredProject
  /\ tasks = [t \in 1..MaxTasks |-> IdleTask]

\* ------------------------------------------------------------------ inputs
\* Field names: a and id are identifiers, "a b" is not one.
A == <<"a">>
AB == <<"a", " ", "b">>

\* The CSV texts of the sequential specification, by header.  Each header has
\* a palette of data lines; a text has at most MaxRows of them.
Palette(header) ==
  CASE header = <<A, AB>> ->
         {<<<<"b", "a">>, <<"1">>>>, <<<<"b", "a">>, <<"2">>>>, <<<<"B", "a">>, <<"1">>>>}
    [] header = <<IdName, A>> ->
         {<<<<"b">>, <<"2">>>>, <<<<"a">>, <<"1", "0">>>>}

Headers == {<<A, AB>>, <<IdName, A>>}

SeqUpTo(S, n) == UNION {[1..k -> S] : k \in 0..n}

FirstError == "Quoted field unterminated"

\* Texts the parser accepts, and texts it reports structural errors for.
GoodCsvTexts ==
  UNION {[header : {h}, lines : SeqUpTo(Palette(h), MaxRows), errors : {<<>>}]
         : h \in Headers}

BadCsvTexts ==
  {[csv EXCEPT !.errors = <<FirstError, "Too few fields">>]
   : csv \in {c \in GoodCsvTexts : Len(c.lines) = 1}}

CsvTexts == GoodCsvTexts \cup BadCsvTexts

FieldNames == {Undefined, A, AB, IdName}

FilterValues == {Undefined, <<"a">>, <<" ", "B", " ">>}

\* Page sizes: one row a page, and the largest page.
PageSizes == {1, MaxPageSize}

Requests ==
  [page : 1..MaxPage, pageSize : PageSizes, sortField : FieldNames,
   sortDirection : {"undefined", "asc", "desc"}, filterField : FieldNames,
   filterValue : FilterValues]

\* ------------------------------------------- operations, one at a time
\* importCsv run to completion on a store: what it reports and what it leaves.
\*   idx:   parse, then importRowsIntoProjectStore;
\*   cache: ensureProjectStore, parse, one readwrite transaction, cache.set.
ImportCsv(eng, store, csv) ==
  LET parseResult == PapaParse(csv)
      rows == normalizeCsvRows(parseResult.data)
      fields == FieldsOf(rows)
      target == IF eng = "idx" THEN store ELSE EnsuredStore(store)
      written == IF eng = "idx" THEN IdxImportStore(target, fields, rows)
                 ELSE ReplaceRows(target, rows)
      upgraded == IF eng = "idx"
                  THEN written.ok /\ ~hasSameProjectStoreSchema(store, fields)
                  ELSE ~store.exists
  IN IF Len(parseResult.errors) > 0
     THEN [status |-> "parseError", message |-> parseResult.errors[1],
           store |-> target, upgraded |-> eng = "cache" /\ ~store.exists,
           rows |-> <<>>, fields |-> <<>>]
     ELSE IF ~written.ok
     THEN [status |-> "storageError", message |-> "ConstraintError",
           store |-> target, upgraded |-> eng = "cache" /\ ~store.exists,
           rows |-> <<>>, fields |-> <<>>]
     ELSE [status |-> "ok", message |-> "", store |-> written.store,
           upgraded |-> upgraded, rows |-> rows, fields |-> fields]

Quiet == imp.pc = "idle" /\ qry.pc = "idle" /\ ~pending.active

SeqImportCsv(p, csv) ==
  LET done == ImportCsv(engine, stores[p], csv)
  IN /\ stores' = [stores EXCEPT ![p] = done.store]
     /\ dbVersion' = IF done.upgraded THEN dbVersion + 1 ELSE dbVersion
     /\ cache' = IF engine = "cache" /\ done.status = "ok"
                 THEN [cache EXCEPT ![p] = CacheEntry(done.rows, done.fields)]
                 ELSE cache
     /\ dataset' = IF done.status = "ok"
                   THEN [dataset EXCEPT ![p] = Imported(@, done.rows, done.fields)]
                   ELSE dataset
     /\ out' = Outcome("import", p, done.status, done.message, NoParams, NoResult,
                       stores, cache, {}, TRUE)
     /\ failed' = IF done.status = "storageError"
                  THEN [active |-> TRUE, project |-> p, before |-> stores[p]]
                  ELSE failed
     /\ UNCHANGED <<auxVars, pageVars, parked, engine, otherTab, leaked, pending, imp, qry, ops>>

\* queryProjectRows run to completion.
SeqQueryProjectRows(p, params) ==
  LET entry == IF cache[p].cached THEN cache[p] ELSE LoadedEntry(stores[p])
      result == IF engine = "idx" THEN IdxQuery(stores[p], p, params)
                ELSE CacheQuery(entry, p, params)
  IN /\ cache' = IF engine = "cache" THEN [cache EXCEPT ![p] = entry] ELSE cache
     /\ out' = Outcome("query", p, result.status, "", params, result,
                       stores, cache, {stores[p]}, TRUE)
     /\ UNCHANGED <<auxVars, pageVars, parked, engine, dbVersion, stores, otherTab, leaked, pending, imp, qry,
                    ops, dataset, failed>>

\* deleteProjectStore run to completion on a store.
\*   idx:   a readwrite transaction that clears the store, when there is one;
\*   cache: an upgrade to the next version that deletes the store, when there
\*          is one.
deleteProjectStore(eng, store) ==
  IF ~store.exists THEN store
  ELSE IF eng = "idx" THEN StoreClear(store)
  ELSE NoStore

\* deleteProjectTable run to completion: deleteProjectStore, and in the cache
\* engine projectRowsCache.delete.
SeqDeleteProjectTable(p) ==
  /\ stores' = [stores EXCEPT ![p] = deleteProjectStore(engine, @)]
  /\ dbVersion' = IF engine = "cache" /\ stores[p].exists THEN dbVersion + 1
                  ELSE dbVersion
  /\ cache' = IF engine = "cache" THEN [cache EXCEPT ![p] = NoEntry] ELSE cache
  /\ dataset' = [dataset EXCEPT ![p] = NoDataset]
  /\ out' = Outcome("delete", p, "ok", "", NoParams, NoResult, stores, cache, {}, TRUE)
  /\ UNCHANGED <<auxVars, pageVars, parked, engine, otherTab, leaked, pending, imp, qry, ops, failed>>

\* The page is loaded again: the module state of the cache engine starts empty.
Reload ==
  /\ engine = "cache"
  /\ Quiet
  /\ \E p \in Projects : cache[p].cached
  /\ cache' = NoCache
  /\ UNCHANGED <<auxVars, pageVars, parked, engine, dbVersion, stores, otherTab, leaked, pending, imp, qry,
                 ops, out, dataset, failed>>

\* The caller has taken what the last call returned (the page's setRows,
\* setFields, setTotalRows or setErrorMessage) and is ready for the next one.
Settle ==
  /\ out.op # "none"
  /\ out' = NoOut
  /\ UNCHANGED <<auxVars, pageVars, parked, engine, dbVersion, stores, cache, otherTab, leaked, pending, imp,
                 qry, ops, dataset, failed>>

\* One project, one import into it, then queries: every dataset against every
\* request.  A call starts when no other call is in flight and the caller has
\* taken the last result.
SeqNext ==
  \/ /\ Quiet
     /\ out.op = "none"
     /\ ~stores["p"].exists
     /\ \E csv \in CsvTexts : SeqImportCsv("p", csv)
  \/ /\ Quiet
     /\ out.op = "none"
     /\ \E params \in Requests : SeqQueryProjectRows("p", params)
  \/ /\ out.op = "none"
     /\ Reload
  \/ Settle

SeqSpec == Init /\ [][SeqNext]_vars

\* --------------------------------------- operations, await by await
\* The inputs of the interleaved specification: a one-row text, a two-row text
\* of the same fields, a text with one more field (whose name is not a valid
\* key path), a text the parser rejects and a text with the same id twice.
OneRow == [header |-> <<A>>, lines |-> <<<<<<"b", "a">>>>>>, errors |-> <<>>]

TwoRows ==
  [header |-> <<A>>, lines |-> <<<<<<"b", "a">>>>, <<<<"B", "b">>>>>>, errors |-> <<>>]

MoreFields ==
  [header |-> <<A, AB>>, lines |-> <<<<<<"b", "a">>, <<"b", "1">>>>>>, errors |-> <<>>]

Unparsable == [OneRow EXCEPT !.errors = <<FirstError, "Too few fields">>]

SameIdTwice ==
  [header |-> <<IdName, A>>,
   lines |-> <<<<<<"1">>, <<"b", "a">>>>, <<<<"1">>, <<"b", "b">>>>>>,
   errors |-> <<>>]

SmallCsvTexts == {OneRow, TwoRows, MoreFields, Unparsable, SameIdTwice}

\* Requests of every branch: no filter or a filter on a or on "a b", no sort
\* or a descending sort on a, all rows on one page.
SmallRequests ==
  [page : {1}, pageSize : {2}, sortField : {Undefined, A}, sortDirection : {"desc"},
   filterField : {Undefined, A, AB}, filterValue : {<<"b">>}]

BlockedMessage == "IndexedDB upgrade is blocked by another tab."

\* A connection that does not close on versionchange is open.
Blocked == otherTab \/ leaked

\* An open request with a version is queued: every later open request of the
\* database waits behind it.
UpgradeQueued ==
  \/ pending.active
  \/ imp.pc \in {"upgrade", "creating"}
  \/ parked.pc \in {"upgrade", "creating"}

\* The readwrite transaction of an import on p is live: reads of p wait.
RwLive(p) == imp.pc = "writing" /\ imp.project = p

\* The query in flight sees the store of its project change.
Observe(q, newStores) ==
  IF q.pc = "idle" THEN q ELSE [q EXCEPT !.seen = @ \cup {newStores[q.project]}]

\* versionchange is fired at the query's runtime Dexie, which closes.
VersionChange(q) == IF q.conn = "open" THEN [q EXCEPT !.conn = "closed"] ELSE q

\* importCsv is called.  The index engine parses first and throws the first
\* parser error before any await; the cache engine awaits ensureProjectStore,
\* whose getDb() returns the dbPromise of the moment: the connection that is
\* open, or the one an upgrade in progress will open (version is its version).
ImportCsvCall(p, csv) ==
  LET parseResult == PapaParse(csv)
      rows == normalizeCsvRows(parseResult.data)
      awaited == IF parked.pc = "creating" /\ parked.version > dbVersion
                 THEN parked.version ELSE dbVersion
      started == [IdleImport EXCEPT
                    !.pc = IF engine = "idx" THEN "open" ELSE "ensure",
                    !.project = p, !.errors = parseResult.errors, !.rows = rows,
                    !.fields = FieldsOf(rows), !.before = stores,
                    !.cacheBefore = cache,
                    !.version = IF engine = "idx" THEN 0 ELSE awaited]
      thrown == engine = "idx" /\ Len(parseResult.errors) > 0
  IN /\ imp.pc = "idle"
     /\ parked.project # p
     /\ ops < MaxOps
     /\ ops' = ops + 1
     /\ imp' = IF thrown THEN imp ELSE started
     /\ out' = IF thrown
               THEN Outcome("import", p, "parseError", parseResult.errors[1], NoParams,
                            NoResult, stores, cache, {}, TRUE)
               ELSE out
     /\ qry' = IF qry.pc = "idle" \/ thrown THEN qry ELSE [qry EXCEPT !.alone = FALSE]
     /\ failed' = IF failed.project = p THEN NoFailure ELSE failed
     /\ UNCHANGED <<auxVars, pageVars, parked, engine, dbVersion, stores, cache, otherTab, leaked, pending,
                    dataset>>

\* The import in flight rejects: what its caller gets.
ImportThrows(status, message) ==
  /\ imp' = IdleImport
  /\ out' = Outcome("import", imp.project, status, message, NoParams, NoResult,
                    imp.before, imp.cacheBefore, {}, TRUE)
  /\ failed' = IF status = "storageError"
               THEN [active |-> TRUE, project |-> imp.project,
                     before |-> imp.before[imp.project]]
               ELSE failed
  /\ dataset' = dataset

\* The import in flight resolves.
ImportReturns ==
  /\ imp' = IdleImport
  /\ out' = Outcome("import", imp.project, "ok", "", NoParams, NoResult,
                    imp.before, imp.cacheBefore, {}, TRUE)
  /\ dataset' = [dataset EXCEPT ![imp.project] = Imported(@, imp.rows, imp.fields)]
  /\ failed' = failed

\* ---- index engine: importRowsIntoProjectStore
\* db.open() resolves; the store's existence, its index names and the version
\* are read.  Without a store the upgrade is requested at once.
IdxImportOpened ==
  /\ engine = "idx"
  /\ imp.pc = "open"
  /\ ~UpgradeQueued
  /\ imp' = [imp EXCEPT !.hasStore = stores[imp.project].exists,
                        !.indexes = stores[imp.project].indexes,
                        !.version = dbVersion + 1,
                        !.pc = IF stores[imp.project].exists THEN "schema" ELSE "upgrade"]
  /\ UNCHANGED <<auxVars, pageVars, parked, engine, dbVersion, stores, cache, otherTab, leaked, pending, qry,
                 ops, out, dataset, failed>>

\* hasSameProjectStoreSchema resolves: the readwrite transaction is created
\* on the same schema, the upgrade is requested on another.  When the other
\* import has closed the shared connection in the meantime (db.close() before
\* its own upgrade), openedDb.transaction throws InvalidStateError.
IdxImportSchemaRead ==
  LET sameSchema == hasSameProjectStoreSchema(
                      [NoStore EXCEPT !.exists = imp.hasStore, !.indexes = imp.indexes],
                      imp.fields)
  IN /\ engine = "idx"
     /\ imp.pc = "schema"
     /\ IF sameSchema /\ parked.pc = "upgrade"
        THEN ImportThrows("storageError", "InvalidStateError")
        ELSE /\ imp' = [imp EXCEPT !.pc = IF sameSchema THEN "writing" ELSE "upgrade"]
             /\ UNCHANGED <<out, dataset, failed>>
     /\ UNCHANGED <<auxVars, pageVars, parked, engine, dbVersion, stores, cache, otherTab, leaked,
                    pending, qry, ops>>

\* The readwrite transaction (clear, add every row) completes or aborts.
IdxImportWrite ==
  LET written == ReplaceRows(stores[imp.project], imp.rows)
      next == [stores EXCEPT ![imp.project] = written.store]
  IN /\ engine = "idx"
     /\ imp.pc = "writing"
     /\ IF written.ok
        THEN /\ stores' = next
             /\ qry' = Observe(qry, next)
             /\ ImportReturns
        ELSE /\ stores' = stores
             /\ qry' = qry
             /\ ImportThrows("storageError", "ConstraintError")
     /\ UNCHANGED <<auxVars, pageVars, parked, engine, dbVersion, cache, otherTab, leaked, pending, ops>>

\* The open request of openIndexedDb is processed.  When the database is at
\* the requested version already (the other import got there first) the
\* request succeeds without onupgradeneeded.  Otherwise versionchange is
\* fired, then the request is blocked (onblocked rejects, the request stays
\* queued), or the upgrade transaction aborts, or it commits.
IdxImportUpgrade ==
  LET upgraded == UpgradeStore(stores[imp.project], imp.hasStore,
                               normalizeIndexFields(imp.fields), imp.rows)
      next == [stores EXCEPT ![imp.project] = upgraded.store]
  IN /\ engine = "idx"
     /\ imp.pc = "upgrade"
     /\ IF imp.version <= dbVersion
        THEN /\ imp' = [imp EXCEPT !.pc = "reopen"]
             /\ UNCHANGED <<stores, dbVersion, qry, pending, out, dataset, failed>>
        ELSE IF Blocked
        THEN /\ pending' = [active |-> TRUE, project |-> imp.project,
                            version |-> imp.version, hasStore |-> imp.hasStore,
                            fields |-> normalizeIndexFields(imp.fields),
                            rows |-> imp.rows]
             /\ ImportThrows("storageError", BlockedMessage)
             /\ qry' = VersionChange(qry)
             /\ UNCHANGED <<stores, dbVersion>>
        ELSE IF ~upgraded.ok
        THEN /\ ImportThrows("storageError", "AbortError")
             /\ qry' = VersionChange(qry)
             /\ UNCHANGED <<stores, dbVersion, pending>>
        ELSE /\ stores' = next
             /\ dbVersion' = imp.version
             /\ imp' = [imp EXCEPT !.pc = "reopen"]
             /\ qry' = Observe(VersionChange(qry), next)
             /\ UNCHANGED <<pending, out, dataset, failed>>
     /\ UNCHANGED <<auxVars, pageVars, parked, engine, cache, otherTab, leaked, ops>>

\* upgradedDb.close(); db.open() resolves and the import returns.
IdxImportReopened ==
  /\ engine = "idx"
  /\ imp.pc = "reopen"
  /\ ImportReturns
  /\ UNCHANGED <<auxVars, pageVars, parked, engine, dbVersion, stores, cache, otherTab, leaked, pending, qry,
                 ops>>

\* The blocking connection is gone: the request that was reported blocked is
\* processed after all.  Nobody holds its promise, so the connection it opens
\* is never closed.
BlockedUpgradeRuns ==
  LET upgraded == UpgradeStore(stores[pending.project], pending.hasStore,
                               pending.fields, pending.rows)
      next == [stores EXCEPT ![pending.project] = upgraded.store]
  IN /\ pending.active
     /\ ~Blocked
     /\ pending' = NoPending
     /\ IF upgraded.ok
        THEN /\ stores' = next
             /\ dbVersion' = pending.version
             /\ leaked' = TRUE
             /\ qry' = Observe(VersionChange(qry), next)
        ELSE /\ qry' = VersionChange(qry)
             /\ UNCHANGED <<stores, dbVersion, leaked>>
     /\ UNCHANGED <<auxVars, pageVars, parked, engine, cache, otherTab, imp, ops, out, dataset, failed>>

\* ---- cache engine: importCsv
\* getDb() of ensureProjectStore resolves.  With a store the text is parsed
\* next; without one the connection is closed and the upgrade is requested.
CacheImportEnsured ==
  /\ engine = "cache"
  /\ imp.pc = "ensure"
  /\ imp.version <= dbVersion
  /\ IF ~stores[imp.project].exists
     THEN /\ imp' = [imp EXCEPT !.pc = "creating", !.version = @ + 1]
          /\ UNCHANGED <<out, dataset, failed>>
     ELSE IF Len(imp.errors) > 0
     THEN ImportThrows("parseError", imp.errors[1])
     ELSE /\ imp' = [imp EXCEPT !.pc = "txn"]
          /\ UNCHANGED <<out, dataset, failed>>
  /\ UNCHANGED <<auxVars, pageVars, parked, engine, dbVersion, stores, cache, otherTab, leaked, pending, qry,
                 ops>>

\* The open request of ensureProjectStore is processed: its upgrade runs once
\* nothing blocks it (openDB's promise stays pending while blocked), and not
\* at all when the database is at the requested version already (the other
\* import got there first); then the store is looked for, and the text parsed.
CacheImportCreated ==
  LET upgrades == imp.version > dbVersion
      next == IF upgrades THEN [stores EXCEPT ![imp.project] = EnsuredStore(@)]
              ELSE stores
  IN /\ engine = "cache"
     /\ imp.pc = "creating"
     /\ ~Blocked
     /\ stores' = next
     /\ dbVersion' = IF upgrades THEN imp.version ELSE dbVersion
     /\ qry' = Observe(qry, next)
     /\ IF ~next[imp.project].exists
        THEN ImportThrows("storageError", "Unable to create a project table in IndexedDB.")
        ELSE IF Len(imp.errors) > 0
        THEN ImportThrows("parseError", imp.errors[1])
        ELSE /\ imp' = [imp EXCEPT !.pc = "txn"]
             /\ UNCHANGED <<out, dataset, failed>>
     /\ UNCHANGED <<auxVars, pageVars, parked, engine, cache, otherTab, leaked, pending, ops>>

\* getDb() resolves (after the open request of the other import, when one is
\* being processed) and the readwrite transaction is created.
CacheImportTxn ==
  /\ engine = "cache"
  /\ imp.pc = "txn"
  /\ parked.pc # "creating"
  /\ imp' = [imp EXCEPT !.pc = "writing"]
  /\ UNCHANGED <<auxVars, pageVars, parked, engine, dbVersion, stores, cache, otherTab, leaked, pending, qry,
                 ops, out, dataset, failed>>

\* The transaction (clear, add every row) completes and the cache entry is
\* set, or an add fails and the transaction aborts.
CacheImportWrite ==
  LET written == ReplaceRows(stores[imp.project], imp.rows)
      next == [stores EXCEPT ![imp.project] = written.store]
  IN /\ engine = "cache"
     /\ imp.pc = "writing"
     /\ IF written.ok
        THEN /\ stores' = next
             /\ cache' = [cache EXCEPT ![imp.project] = CacheEntry(imp.rows, imp.fields)]
             /\ qry' = Observe(qry, next)
             /\ ImportReturns
        ELSE /\ UNCHANGED <<stores, cache, qry>>
             /\ ImportThrows("storageError", "ConstraintError")
     /\ UNCHANGED <<auxVars, pageVars, parked, engine, dbVersion, otherTab, leaked, pending, ops>>

\* ---- queryProjectRows
\* The query in flight resolves or rejects: what its caller gets.
QueryReturns(result) ==
  /\ qry' = IdleQuery
  /\ out' = Outcome("query", qry.project, result.status, "", qry.params, result,
                    qry.before, qry.cacheBefore, qry.seen, qry.alone)

\* queryProjectRows is called.  The cache engine answers from a cache entry
\* without an await.
QueryCall(p, params) ==
  LET started == [IdleQuery EXCEPT
                    !.pc = IF engine = "idx" THEN "hasStore" ELSE "getDb",
                    !.project = p, !.params = params, !.seen = {stores[p]},
                    !.alone = imp.pc = "idle" /\ ~pending.active,
                    !.before = stores, !.cacheBefore = cache]
      cached == engine = "cache" /\ cache[p].cached
      result == CacheQuery(cache[p], p, params)
  IN /\ qry.pc = "idle"
     /\ ops < MaxOps
     /\ ops' = ops + 1
     /\ qry' = IF cached THEN qry ELSE started
     /\ out' = IF cached
               THEN Outcome("query", p, result.status, "", params, result, stores,
                            cache, started.seen, started.alone)
               ELSE out
     /\ UNCHANGED <<auxVars, pageVars, parked, engine, dbVersion, stores, cache, otherTab, leaked, pending, imp,
                    dataset, failed>>

\* hasProjectStore resolves (its db.open() waits behind a queued upgrade).
IdxQueryHasStore ==
  /\ engine = "idx"
  /\ qry.pc = "hasStore"
  /\ ~UpgradeQueued
  /\ IF stores[qry.project].exists
     THEN qry' = [qry EXCEPT !.pc = "capture"] /\ out' = out
     ELSE QueryReturns(EmptyResult("idx", qry.project, qry.params))
  /\ UNCHANGED <<auxVars, pageVars, parked, engine, dbVersion, stores, cache, otherTab, leaked, pending, imp,
                 ops, dataset, failed>>

\* openRuntimeDexie: db.open() resolves, the index names of the stores and
\* the version are read for the schema of the runtime Dexie.
IdxQueryCaptured ==
  /\ engine = "idx"
  /\ qry.pc = "capture"
  /\ ~UpgradeQueued
  /\ qry' = [qry EXCEPT !.pc = "opening", !.version = dbVersion,
                        !.schema = stores[qry.project].indexes]
  /\ UNCHANGED <<auxVars, pageVars, parked, engine, dbVersion, stores, cache, otherTab, leaked, pending, imp,
                 ops, out, dataset, failed>>

\* runtimeDb.open() settles.  Declared below the installed version it either
\* rejects or opens the database as it is, depending on the Dexie release.
IdxQueryOpened ==
  /\ engine = "idx"
  /\ qry.pc = "opening"
  /\ ~UpgradeQueued
  /\ \E opens \in BOOLEAN :
       /\ qry.version = dbVersion => opens
       /\ IF opens
          THEN qry' = [qry EXCEPT !.pc = "count", !.conn = "open"] /\ out' = out
          ELSE QueryReturns(Thrown)
  /\ UNCHANGED <<auxVars, pageVars, parked, engine, dbVersion, stores, cache, otherTab, leaked, pending, imp,
                 ops, dataset, failed>>

\* What a table operation of the runtime Dexie can read: nothing without an
\* index of the declared schema that the store has.
Readable(q) ==
  BranchIndexed(q.schema \cap stores[q.project].indexes, q.params)

\* The first await of the branch settles.  On a connection that versionchange
\* closed the operation rejects or Dexie opens the database again, depending
\* on the Dexie release.
IdxQueryCounted ==
  /\ engine = "idx"
  /\ qry.pc = "count"
  /\ ~RwLive(qry.project)
  /\ \E reopens \in BOOLEAN :
       /\ qry.conn = "open" => reopens
       /\ (qry.conn = "closed" /\ reopens) => ~UpgradeQueued
       /\ IF reopens /\ Readable(qry)
          THEN /\ qry' = [qry EXCEPT !.pc = "rows", !.conn = "open",
                                     !.total = IdxCount(stores[qry.project], qry.params)]
               /\ out' = out
          ELSE QueryReturns(Thrown)
  /\ UNCHANGED <<auxVars, pageVars, parked, engine, dbVersion, stores, cache, otherTab, leaked, pending, imp,
                 ops, dataset, failed>>

\* The second await of the branch settles and the query returns.
IdxQueryRows ==
  /\ engine = "idx"
  /\ qry.pc = "rows"
  /\ ~RwLive(qry.project)
  /\ \E reopens \in BOOLEAN :
       /\ qry.conn = "open" => reopens
       /\ (qry.conn = "closed" /\ reopens) => ~UpgradeQueued
       /\ IF reopens /\ Readable(qry)
          THEN QueryReturns(IdxResult(qry.total, IdxPage(stores[qry.project], qry.params),
                                      qry.project, qry.params))
          ELSE QueryReturns(Thrown)
  /\ UNCHANGED <<auxVars, pageVars, parked, engine, dbVersion, stores, cache, otherTab, leaked, pending, imp,
                 ops, dataset, failed>>

\* loadAndCacheProjectRows: getDb() resolves.  Without a store an empty entry
\* is cached and answered from; with one, getAll is requested.
CacheQueryGetDb ==
  /\ engine = "cache"
  /\ qry.pc = "getDb"
  /\ ~UpgradeQueued
  /\ IF stores[qry.project].exists
     THEN /\ qry' = [qry EXCEPT !.pc = "getAll"]
          /\ UNCHANGED <<cache, out>>
     ELSE /\ cache' = [cache EXCEPT ![qry.project] = CacheEntry(<<>>, <<>>)]
          /\ QueryReturns(CacheQuery(CacheEntry(<<>>, <<>>), qry.project, qry.params))
  /\ UNCHANGED <<auxVars, pageVars, parked, engine, dbVersion, stores, otherTab, leaked, pending, imp, ops,
                 dataset, failed>>

\* getAll resolves: the rows are cached and the query answers from them.
CacheQueryGetAll ==
  LET entry == LoadedEntry(stores[qry.project])
  IN /\ engine = "cache"
     /\ qry.pc = "getAll"
     /\ ~RwLive(qry.project)
     /\ cache' = [cache EXCEPT ![qry.project] = entry]
     /\ QueryReturns(CacheQuery(entry, qry.project, qry.params))
     /\ UNCHANGED <<auxVars, pageVars, parked, engine, dbVersion, stores, otherTab, leaked, pending, imp, ops,
                    dataset, failed>>

\* ---- another consumer of the database
OtherTabOpens ==
  /\ ~otherTab
  /\ ~UpgradeQueued
  /\ otherTab' = TRUE
  /\ UNCHANGED <<auxVars, pageVars, parked, engine, dbVersion, stores, cache, leaked, pending, imp, qry, ops,
                 out, dataset, failed>>

OtherTabCloses ==
  /\ otherTab
  /\ otherTab' = FALSE
  /\ UNCHANGED <<auxVars, pageVars, parked, engine, dbVersion, stores, cache, leaked, pending, imp, qry, ops,
                 out, dataset, failed>>

Next ==
  \/ \E csv \in SmallCsvTexts : ImportCsvCall("p", csv)
  \/ \E params \in SmallRequests : QueryCall("p", params)
  \/ IdxImportOpened
  \/ IdxImportSchemaRead
  \/ IdxImportWrite
  \/ IdxImportUpgrade
  \/ IdxImportReopened
  \/ BlockedUpgradeRuns
  \/ CacheImportEnsured
  \/ CacheImportCreated
  \/ CacheImportTxn
  \/ CacheImportWrite
  \/ IdxQueryHasStore
  \/ IdxQueryCaptured
  \/ IdxQueryOpened
  \/ IdxQueryCounted
  \/ IdxQueryRows
  \/ CacheQueryGetDb
  \/ CacheQueryGetAll
  \/ OtherTabOpens
  \/ OtherTabCloses

Spec == Init /\ [][Next]_vars

\* ------------------------------------------------- two imports at a time
\* The event loop turns to the other importCsv call in flight, or makes room
\* for a second call while the first waits at an await.
TakeTurns ==
  /\ imp.pc # "idle" \/ parked.pc # "idle"
  /\ imp' = parked
  /\ parked' = imp
  /\ UNCHANGED <<auxVars, pageVars, engine, dbVersion, stores, cache, otherTab, leaked, pending,
                 qry, ops, out, dataset, failed>>

\* Imports into p and into q that overlap in time, in one page and with no
\* other consumer of the database.
TwoNext ==
  \/ \E p \in Projects, csv \in {OneRow, MoreFields} : ImportCsvCall(p, csv)
  \/ TakeTurns
  \/ IdxImportOpened
  \/ IdxImportSchemaRead
  \/ IdxImportWrite
  \/ IdxImportUpgrade
  \/ IdxImportReopened
  \/ CacheImportEnsured
  \/ CacheImportCreated
  \/ CacheImportTxn
  \/ CacheImportWrite

TwoSpec == Init /\ [][TwoNext]_vars

\* ---------------------------------------------------- the project page
\* PAGE_SIZE, scaled down so that two rows fill two pages.
PAGE_SIZE == 1

LoadFailed == "Unable to load data from IndexedDB."

\* The request loadRows sends for a request state: '' becomes undefined.
ParamsOf(v) ==
  [page |-> v.page, pageSize |-> PAGE_SIZE,
   sortField |-> IF v.sortField = <<>> THEN Undefined ELSE v.sortField,
   sortDirection |-> v.sortDirection,
   filterField |-> IF v.filterField = <<>> THEN Undefined ELSE v.filterField,
   filterValue |-> IF v.appliedFilterValue = <<>> THEN Undefined
                   ELSE v.appliedFilterValue]

\* Math.max(1, Math.ceil(totalRows / PAGE_SIZE))
TotalPages(totalRows) == Max(1, (totalRows + PAGE_SIZE - 1) \div PAGE_SIZE)

\* The request states one event handler of the page leads to: previous and
\* next page, the sort field select (which also goes back to page 1), the
\* filter field select, Enter in the filter input and its clear button (page 1
\* again).  The selects offer the displayed fields, and the filter input is
\* disabled while there are none.
Handlers(v, displayed) ==
  LET offered == {displayed.fields[i] : i \in 1..Len(displayed.fields)}
      next == IF v.page + 1 < TotalPages(displayed.total) THEN v.page + 1
              ELSE TotalPages(displayed.total)
  IN {[v EXCEPT !.page = Max(@ - 1, 1)], [v EXCEPT !.page = next]}
       \cup {[v EXCEPT !.sortField = f, !.page = 1] : f \in offered \cup {<<>>}}
       \cup {[v EXCEPT !.filterField = f] : f \in offered}
       \cup {[v EXCEPT !.appliedFilterValue = t, !.page = 1]
               : t \in IF offered = {} THEN {} ELSE {<<"b">>, <<>>}}

\* A loadRows call that finds every result and every error welcome.
NeverDiscarded(load) == FALSE

\* if (isCancelled) { return }, after the await and in the catch block.
IsDiscarded(load) == load.isCancelled

\* The effect runs for a request state: the cleanup of the run before it sets
\* that run's isCancelled, then loadRows starts (setErrorMessage('')) and
\* waits for queryProjectRows.  A call remembers how many imports the page
\* had completed when it started.
Superseded(running) == {[l EXCEPT !.isCancelled = TRUE] : l \in running}

Started(running, v) ==
  Superseded(running) \cup {[view |-> v, isCancelled |-> FALSE, imports |-> imports]}

\* The page loads its project: the effect runs for the first time.
PageMounts ==
  /\ ~view.mounted
  /\ view' = [view EXCEPT !.mounted = TRUE]
  /\ loads' = Started(loads, view')
  /\ shown' = [shown EXCEPT !.errorMessage = ""]
  /\ UNCHANGED <<auxVars, parked, engine, dbVersion, stores, cache, otherTab, leaked, pending, imp, qry,
                 ops, out, dataset, failed>>

\* An event handler changes the request state while earlier loadRows calls
\* may be in flight: the effect runs again.
RequestChanges(next) ==
  /\ view.mounted
  /\ next # view
  /\ Cardinality(loads) < MaxOps
  /\ view' = next
  /\ loads' = Started(loads, next)
  /\ shown' = [shown EXCEPT !.errorMessage = ""]
  /\ UNCHANGED <<auxVars, parked, engine, dbVersion, stores, cache, otherTab, leaked, pending, imp, qry,
                 ops, out, dataset, failed>>

\* The queryProjectRows of one loadRows call settles.  A call that is not
\* discarded sets rows, fields, totalRows and sqlPreview, or the error message;
\* when it was issued without a filter field and got fields it sets the filter
\* field to the first of them, which makes the effect run again.
LoadRowsSettles(load) ==
  /\ cache' = IF engine = "cache" /\ ~cache["p"].cached
              THEN [cache EXCEPT !["p"] = LoadedEntry(stores["p"])]
              ELSE cache
  /\ UNCHANGED <<auxVars, parked, engine, dbVersion, stores, otherTab, leaked, pending, imp, qry,
                 ops, out, dataset, failed>>
  /\ LET params == ParamsOf(load.view)
         result == IF engine = "idx" THEN IdxQuery(stores["p"], "p", params)
                   ELSE CacheQuery(IF cache["p"].cached THEN cache["p"]
                                   ELSE LoadedEntry(stores["p"]), "p", params)
         taken == ~IsDiscarded(load)
         picksField == /\ taken
                       /\ result.status = "ok"
                       /\ load.view.filterField = <<>>
                       /\ result.fields # <<>>
                       /\ view.filterField # result.fields[1]
         display == IF ~taken THEN shown
                    ELSE IF result.status = "ok"
                    THEN [shown EXCEPT !.rows = result.rows, !.fields = result.fields,
                                       !.total = result.total, !.sql = result.sql]
                    ELSE [shown EXCEPT !.errorMessage = LoadFailed]
     IN IF picksField
        THEN /\ view' = [view EXCEPT !.filterField = result.fields[1]]
             /\ loads' = Started(loads \ {load}, view')
             /\ shown' = [display EXCEPT !.errorMessage = ""]
        ELSE /\ view' = view
             /\ loads' = loads \ {load}
             /\ shown' = display

\* Data is imported before the page is opened; then the page loads, the user
\* pages, sorts and filters, and the queries settle in any order.
PageNext ==
  \/ /\ ~view.mounted
     /\ ~stores["p"].exists
     /\ \E csv \in {TwoRows, MoreFields} : SeqImportCsv("p", csv)
  \/ PageMounts
  \/ \E next \in Handlers(view, shown) : RequestChanges(next)
  \/ \E load \in loads : LoadRowsSettles(load)

PageSpec == Init /\ [][PageNext]_vars

\* -------------------------------------------- imports on the project page
\* Successful imports on one visit of the page.
MaxImports == 1

\* loadRows calls in flight when a handler of the visit runs.
MaxLoads == 2

\* Two rows of two fields: the text b is in both values of a and in one of "a b".
TwoFields ==
  [header |-> <<A, AB>>,
   lines |-> <<<<<<"b", "a">>, <<"b", "1">>>>, <<<<"B", "b">>, <<"1">>>>>>,
   errors |-> <<>>]

\* onImportCsv, from the file chosen to the end of the handler (importCsv
\* runs to completion).  After a successful import the handler sets the fields,
\* no sort field, the first field as filter field, no filter value and page 1;
\* the effect runs again when that changes the request state.  A failed import
\* sets the error message.
PageImported(done) ==
  LET ok == done.status = "ok"
      next == IF ok
              THEN [view EXCEPT !.sortField = <<>>,
                                !.filterField = IF done.fields = <<>> THEN <<>>
                                                ELSE done.fields[1],
                                !.appliedFilterValue = <<>>,
                                !.page = 1]
              ELSE view
  IN /\ view.mounted
     /\ imports < MaxImports
     /\ stores' = [stores EXCEPT !["p"] = done.store]
     /\ dbVersion' = IF done.upgraded THEN dbVersion + 1 ELSE dbVersion
     /\ cache' = IF engine = "cache" /\ ok
                 THEN [cache EXCEPT !["p"] = CacheEntry(done.rows, done.fields)]
                 ELSE cache
     /\ dataset' = IF ok THEN [dataset EXCEPT !["p"] = Imported(@, done.rows, done.fields)]
                   ELSE dataset
     /\ out' = Outcome("import", "p", done.status, done.message, NoParams, NoResult,
                       stores, cache, {}, TRUE)
     /\ failed' = IF done.status = "storageError"
                  THEN [active |-> TRUE, project |-> "p", before |-> stores["p"]]
                  ELSE failed
     /\ imports' = IF ok THEN imports + 1 ELSE imports
     /\ view' = next
     /\ loads' = IF next # view
                 THEN Superseded(loads)
                        \cup {[view |-> next, isCancelled |-> FALSE, imports |-> imports']}
                 ELSE loads
     /\ shown' = IF ok THEN [shown EXCEPT !.fields = done.fields, !.errorMessage = ""]
                 ELSE [shown EXCEPT !.errorMessage = done.message]
     /\ UNCHANGED <<chart, norm, boardVars, serviceVars, parked, engine, otherTab, leaked, pending, imp, qry, ops>>

\* The file chosen on the page is imported into the project of the page.
PageImports(csv) == PageImported(ImportCsv(engine, stores["p"], csv))

\* The page is opened on a project with or without data; the user imports a
\* file and pages, sorts and filters, and the queries settle in any order.
VisitNext ==
  \/ /\ ~view.mounted
     /\ ~stores["p"].exists
     /\ SeqImportCsv("p", TwoFields)
  \/ PageMounts
  \/ \E csv \in {TwoRows, Unparsable} : PageImports(csv)
  \/ /\ Cardinality(loads) < MaxLoads
     /\ \E next \in Handlers(view, shown) : RequestChanges(next)
  \/ \E load \in loads : LoadRowsSettles(load)

VisitSpec == Init /\ [][VisitNext]_vars

\* ----------------------------------------------- requests at the edges
\* A text whose first column is named id.
WithId ==
  [header |-> <<IdName, A>>, lines |-> <<<<<<"b">>, <<"2">>>>>>, errors |-> <<>>]

\* Requests with pages and page sizes below one, and with filter values that
\* are absent, empty, blank, or padded with blanks.
EdgeRequests ==
  [page : (1 - MaxPage)..MaxPage, pageSize : (1 - MaxPageSize)..MaxPageSize,
   sortField : {Undefined, A}, sortDirection : {"undefined", "desc"},
   filterField : {Undefined, A},
   filterValue : {Undefined, <<>>, <<" ">>, <<" ", "a", " ">>}]

\* Imports into a project without data, queries at the edges of the request
\* space and deletions, one call at a time; the page may be loaded again at
\* any time between two calls, also before the caller has let go of the last
\* result.  The database version and the key generator grow without limit as
\* imports and deletions alternate: imports stop once either has grown past
\* its bound.
EdgeNext ==
  \/ /\ Quiet
     /\ out.op = "none"
     /\ ~dataset["p"].imported
     /\ dbVersion <= MaxOps
     /\ stores["p"].nextKey <= MaxRows + 1
     /\ \E csv \in {TwoRows, MoreFields, WithId} : SeqImportCsv("p", csv)
  \/ /\ Quiet
     /\ out.op = "none"
     /\ \E params \in EdgeRequests : SeqQueryProjectRows("p", params)
  \/ /\ Quiet
     /\ out.op = "none"
     /\ SeqDeleteProjectTable("p")
  \/ Reload
  \/ Settle

EdgeSpec == Init /\ [][EdgeNext]_vars

\* ---------------------------------------------------------------- charts
\* Rows a chart is built from.
MaxChartRows == 3

\* The label of the bucket of empty values.
EmptyLabel == <<"(", "E", "m", "p", "t", "y", ")">>

\* The value of a row as it is, with the label for the empty one (no trim).
UntrimmedChartValue(row, field) ==
  IF ValueOrEmpty(row, field) # <<>> THEN ValueOrEmpty(row, field) ELSE EmptyLabel

\* const rawValue = (row[field] ?? '').trim(); const value = rawValue || '(Empty)'
ChartValue(row, field) ==
  LET rawValue == Trim(ValueOrEmpty(row, field))
  IN IF rawValue # <<>> THEN rawValue ELSE EmptyLabel

\* for (const row of rows) counts.set(value, (counts.get(value) ?? 0) + 1): the
\* entries of the Map, in the order the values were first met.
RECURSIVE CountValues(_, _, _)
CountValues(rows, field, counts) ==
  IF rows = <<>> THEN counts
  ELSE LET value == ChartValue(Head(rows), field)
           known == \E i \in 1..Len(counts) : counts[i].value = value
       IN CountValues(Tail(rows), field,
            IF known
            THEN [i \in 1..Len(counts) |->
                    IF counts[i].value = value
                    THEN [counts[i] EXCEPT !.count = @ + 1] ELSE counts[i]]
            ELSE Append(counts, [value |-> value, count |-> 1]))

\* [...counts.entries()].map(...).sort(...): by count descending, then by
\* localeCompare of the values with sensitivity "base".
buildFieldCountChartData(rows, field) ==
  LET entries == CountValues(rows, field, <<>>)
  IN StableSort(entries, [left \in 1..Len(entries), right \in 1..Len(entries) |->
       IF entries[right].count # entries[left].count
       THEN entries[right].count - entries[left].count < 0
       ELSE LocaleCompareBase(entries[left].value, entries[right].value) < 0])

\* The cells of the charted column: empty, blank, padded, differing in case
\* only, the text of the label itself; and a row without the column.
ChartTexts == {<<>>, <<" ">>, <<"a">>, <<"A">>, <<" ", "a", " ">>, <<"b">>, EmptyLabel}

ChartRows == {<<[k |-> A, v |-> t]>> : t \in ChartTexts} \cup {<<[k |-> AB, v |-> <<"a">>]>>}

\* A chart is drawn for a field of some rows (one chart in a behaviour).
BuildChart(rows, field) ==
  /\ ~chart.built
  /\ chart' = [built |-> TRUE, rows |-> rows, field |-> field,
               data |-> buildFieldCountChartData(rows, field)]
  /\ UNCHANGED <<norm, imports, boardVars, serviceVars, pageVars, parked, engine, dbVersion, stores, cache, otherTab,
                 leaked, pending, imp, qry, ops, out, dataset, failed>>

ChartNext ==
  /\ ~chart.built
  /\ \E rows \in SeqUpTo(ChartRows, MaxChartRows), field \in {A, AB} :
       BuildChart(rows, field)

ChartSpec == Init /\ [][ChartNext]_vars

\* ------------------------------------------------------------ normalization
\* Records handed to one call of normalizeCsvRows.
MaxRecords == 3

\* Header cells as they are typed: padded, blank, with a blank inside.
RawHeaders == {<<<<" ", "a", " ">>, <<" ">>>>, <<<<" ">>>>, <<AB, <<"b">>>>}

\* parseResult.data holds Record<string, unknown>: one record per data line,
\* keyed by the trimmed header cells, and by its type also null and undefined
\* values and entries that are no objects.
ParsedRecords ==
  UNION {{PapaParse([header |-> h, lines |-> <<[j \in 1..Len(h) |-> v]>>,
                     errors |-> <<>>]).data[1] : v \in {<<"1">>, <<>>, Null, Undefined}}
         : h \in RawHeaders}
    \cup {[obj |-> FALSE, entries |-> <<>>]}

\* const rows = normalizeCsvRows(parseResult.data); const fields = ...
NormalizeRows(data) ==
  /\ ~norm.done
  /\ norm' = [done |-> TRUE, data |-> data, rows |-> normalizeCsvRows(data),
              fields |-> FieldsOf(normalizeCsvRows(data))]
  /\ UNCHANGED <<chart, imports, boardVars, serviceVars, pageVars, parked, engine, dbVersion, stores, cache, otherTab,
                 leaked, pending, imp, qry, ops, out, dataset, failed>>

NormNext ==
  /\ ~norm.done
  /\ \E data \in SeqUpTo(ParsedRecords, MaxRecords) : NormalizeRows(data)

NormSpec == Init /\ [][NormNext]_vars

\* ------------------------------------------- the project page with charts
\* Charts created on one visit of the page.
MaxCharts == 1

\* loadRows calls in flight when a handler of the page with charts runs.
MaxFetches == 2

\* Two rows of two fields: the text b is in both values of a and in one value
\* of "a b", the text 1 in no value of a.
Wide ==
  [fields |-> <<A, AB>>,
   rows |-> <<<<[k |-> A, v |-> <<"b", "a">>], [k |-> AB, v |-> <<"b", "1">>]>>,
              <<[k |-> A, v |-> <<"B", "b">>], [k |-> AB, v |-> <<"1">>]>>>>]

\* The same rows without the field "a b".
Narrow ==
  [fields |-> <<A>>,
   rows |-> <<<<[k |-> A, v |-> <<"b", "a">>]>>, <<[k |-> A, v |-> <<"B", "b">>]>>>>]

\* The filter step of the query planner: the rows whose value of the filter
\* field contains the trimmed filter text, whatever the case; every row when
\* the field or the trimmed text is missing.
FilterStep(rows, filterField, filterValue) ==
  LET text == IF filterValue = Undefined THEN <<>> ELSE Trim(filterValue)
  IN IF Truthy(filterField) /\ text # <<>>
     THEN SelectSeq(rows, LAMBDA row :
            Includes(ToLowerCase(ValueOrEmpty(row, filterField)), ToLowerCase(text)))
     ELSE rows

\* dataService.search on the rows of the project's store: filter, order,
\* count, paginate; the fields are those of the rows of the returned page.
search(rows, params) ==
  LET matching == FilterStep(rows, params.filterField, params.filterValue)
      ordered == IF Truthy(params.sortField)
                 THEN sortRows(matching, params.sortField, params.sortDirection)
                 ELSE matching
      pageSize == Max(params.pageSize, 1)
      offset == (Max(params.page, 1) - 1) * pageSize
      paged == Slice(ordered, offset, offset + pageSize)
  IN [rows |-> paged, fields |-> FieldsOf(paged), total |-> Len(matching)]

\* dataService.getFilteredRows on the rows of the project's store: the filter
\* step alone, without pagination.
getFilteredRows(rows, filter) == FilterStep(rows, filter.filterField, filter.filterValue)

\* The dependencies of the loadRows effect.
DepsOf(b) ==
  [page |-> b.page, sortField |-> b.sortField, sortDirection |-> b.sortDirection,
   filterField |-> b.filterField, appliedFilterValue |-> b.appliedFilterValue,
   refreshKey |-> b.refreshKey]

\* The cleanup of the effect sets isCancelled in the calls in flight; nothing
\* reads the request of a cancelled call any more, so it is not kept.
Cancelled(running) ==
  {[deps |-> DepsOf(InitialBoard), isCancelled |-> TRUE] : l \in running}

\* The two requests loadRows sends for them: '' becomes undefined.
SearchParams(deps) ==
  [page |-> deps.page, pageSize |-> PAGE_SIZE,
   sortField |-> IF deps.sortField = <<>> THEN Undefined ELSE deps.sortField,
   sortDirection |-> deps.sortDirection,
   filterField |-> IF deps.filterField = <<>> THEN Undefined ELSE deps.filterField,
   filterValue |-> IF deps.appliedFilterValue = <<>> THEN Undefined
                   ELSE deps.appliedFilterValue]

FilterParams(deps) ==
  [filterField |-> IF deps.filterField = <<>> THEN Undefined ELSE deps.filterField,
   filterValue |-> IF deps.appliedFilterValue = <<>> THEN Undefined
                   ELSE deps.appliedFilterValue]

\* The bucket lists of the charts, by chart id, built from the rows the page
\* holds.
PageRowsChartData(b) ==
  [i \in 1..Len(b.charts) |->
     [id |-> b.charts[i].id, data |-> buildFieldCountChartData(b.rows, b.charts[i].field)]]

\* chartDataById: for (const chart of charts)
\*   next.set(chart.id, buildFieldCountChartData(filteredRows, chart.field))
chartDataById(b) ==
  [i \in 1..Len(b.charts) |->
     [id |-> b.charts[i].id,
      data |-> buildFieldCountChartData(b.filteredRows, b.charts[i].field)]]

\* onSortByField: ascending, then descending, then no sort; page 1 each time.
onSortByField(b, field) ==
  IF b.sortField # field
  THEN [b EXCEPT !.sortField = field, !.sortDirection = "asc", !.page = 1]
  ELSE IF b.sortDirection = "asc"
  THEN [b EXCEPT !.sortDirection = "desc", !.page = 1]
  ELSE [b EXCEPT !.sortField = <<>>, !.sortDirection = "asc", !.page = 1]

\* The texts entered in the filter input: one that some values contain and
\* one that no value of a contains.
FilterTexts == {<<"b">>, <<"1">>}

\* The states one handler of the request leads to: Previous and Next (disabled
\* at the ends), a click on a column header, the filter field combobox (None
\* also clears the filter), Enter in the filter input (disabled without fields
\* or without a filter field) and its clear button.
BoardHandlers(b) ==
  LET offered == {b.fields[i] : i \in 1..Len(b.fields)}
      totalPages == TotalPages(b.totalRows)
  IN {[b EXCEPT !.page = Max(@ - 1, 1)] : x \in IF b.page <= 1 THEN {} ELSE {1}}
       \cup {[b EXCEPT !.page = IF @ + 1 < totalPages THEN @ + 1 ELSE totalPages]
               : x \in IF b.page >= totalPages THEN {} ELSE {1}}
       \cup {onSortByField(b, f) : f \in offered}
       \cup {[b EXCEPT !.filterField = f] : f \in offered}
       \cup {[b EXCEPT !.filterField = <<>>, !.appliedFilterValue = <<>>, !.page = 1]
               : x \in IF offered = {} THEN {} ELSE {1}}
       \cup {[b EXCEPT !.appliedFilterValue = t, !.page = 1]
               : t \in IF offered = {} \/ b.filterField = <<>> THEN {} ELSE FilterTexts}
       \cup {[b EXCEPT !.appliedFilterValue = <<>>, !.page = 1]
               : x \in IF b.appliedFilterValue = <<>> THEN {} ELSE {1}}

\* What the actions of the page with charts leave as it is.
offBoard == <<engine, dbVersion, stores, cache, otherTab, leaked, pending, imp, parked,
              qry, ops, out, dataset, failed, pageVars, chart, norm, imports, serviceVars>>

\* Data is imported into the project before the page is opened.
TableSeeded ==
  /\ ~board.mounted
  /\ table = NoTable
  /\ table' = Wide
  /\ UNCHANGED <<board, fetches, offBoard>>

\* loadProject returns: the project and its charts are set, and the loadRows
\* effect runs for the first time.
BoardOpens ==
  /\ ~board.mounted
  /\ board' = [board EXCEPT !.mounted = TRUE, !.charts = board.saved]
  /\ fetches' = {[deps |-> DepsOf(board'), isCancelled |-> FALSE]}
  /\ UNCHANGED <<table, offBoard>>

\* A handler changes the request state: the cleanup of the effect cancels the
\* calls in flight and loadRows starts again (setErrorMessage('')).
BoardChanges(next) ==
  /\ board.mounted
  /\ DepsOf(next) # DepsOf(board)
  /\ board' = [next EXCEPT !.errorMessage = ""]
  /\ fetches' = Cancelled(fetches) \cup {[deps |-> DepsOf(next), isCancelled |-> FALSE]}
  /\ UNCHANGED <<table, offBoard>>

\* The Promise.all of one loadRows call settles.  A call that was not
\* cancelled sets rows, filteredRows, fields and totalRows and keeps the
\* charts whose field is among the fields of the result.
BoardSettles(fetch) ==
  LET result == search(table.rows, SearchParams(fetch.deps))
      nextFilteredRows == getFilteredRows(table.rows, FilterParams(fetch.deps))
  IN /\ fetches' = fetches \ {fetch}
     /\ board' = IF fetch.isCancelled THEN board
                 ELSE [board EXCEPT
                         !.rows = result.rows,
                         !.filteredRows = nextFilteredRows,
                         !.fields = result.fields,
                         !.totalRows = result.total,
                         !.charts = SelectSeq(@, LAMBDA c :
                                      \E i \in 1..Len(result.fields) :
                                        result.fields[i] = c.field)]
     /\ UNCHANGED <<table, offBoard>>

\* charts.filter((chart) => chart.field.trim().length > 0).map(...): what
\* updateProjectCharts stores of the list it is given.
normalizedCharts(charts) == SelectSeq(charts, LAMBDA c : Trim(c.field) # <<>>)

\* onSaveChart in create mode, with a field chosen among the displayed ones.
ChartAdded(field) ==
  /\ board.mounted
  /\ board.created < MaxCharts
  /\ \E i \in 1..Len(board.fields) : board.fields[i] = field
  /\ LET nextCharts == Append(board.charts, [id |-> board.created + 1, field |-> field])
     IN board' = [board EXCEPT !.charts = nextCharts, !.created = @ + 1,
                               !.saved = normalizedCharts(nextCharts)]
  /\ UNCHANGED <<table, fetches, offBoard>>

\* onSaveChart in edit mode: the chart gets another of the displayed fields.
ChartEdited(id, field) ==
  /\ board.mounted
  /\ \E i \in 1..Len(board.charts) : board.charts[i].id = id /\ board.charts[i].field # field
  /\ \E i \in 1..Len(board.fields) : board.fields[i] = field
  /\ LET nextCharts == [i \in 1..Len(board.charts) |->
                          IF board.charts[i].id = id
                          THEN [board.charts[i] EXCEPT !.field = field]
                          ELSE board.charts[i]]
     IN board' = [board EXCEPT !.charts = nextCharts,
                               !.saved = normalizedCharts(nextCharts)]
  /\ UNCHANGED <<table, fetches, offBoard>>

\* onDeleteChart
ChartDeleted(id) ==
  /\ board.mounted
  /\ \E i \in 1..Len(board.charts) : board.charts[i].id = id
  /\ LET nextCharts == SelectSeq(board.charts, LAMBDA c : c.id # id)
     IN board' = [board EXCEPT !.charts = nextCharts,
                               !.saved = normalizedCharts(nextCharts)]
  /\ UNCHANGED <<table, fetches, offBoard>>

\* onImportCsv with importCsv run to completion: the store holds the new rows,
\* the page takes the fields, empties filteredRows, resets the sort field, the
\* filter and the page and increments refreshKey, so that the effect runs.
BoardImports(data) ==
  /\ board.mounted
  /\ board.refreshKey < MaxImports
  /\ table' = data
  /\ board' = [board EXCEPT !.fields = data.fields, !.filteredRows = <<>>,
                            !.sortField = <<>>, !.filterField = <<>>,
                            !.appliedFilterValue = <<>>, !.page = 1,
                            !.refreshKey = @ + 1, !.errorMessage = ""]
  /\ fetches' = Cancelled(fetches) \cup {[deps |-> DepsOf(board'), isCancelled |-> FALSE]}
  /\ UNCHANGED offBoard

\* onImportCsv when importCsv throws: the message is shown, nothing else.
ImportFailed == "CSV import failed."

BoardImportFails ==
  /\ board.mounted
  /\ board.errorMessage = ""
  /\ board' = [board EXCEPT !.errorMessage = ImportFailed]
  /\ UNCHANGED <<table, fetches, offBoard>>

\* The page is opened on a project with or without data; the user pages,
\* sorts, filters, adds, edits and deletes charts and imports a file, and the
\* loads settle in any order.
BoardNext ==
  \/ TableSeeded
  \/ BoardOpens
  \/ /\ Cardinality(fetches) < MaxFetches
     /\ \E next \in BoardHandlers(board) : BoardChanges(next)
  \/ \E fetch \in fetches : BoardSettles(fetch)
  \/ \E field \in {A, AB} : ChartAdded(field)
  \/ \E id \in 1..MaxCharts, field \in {A, AB} : ChartEdited(id, field)
  \/ \E id \in 1..MaxCharts : ChartDeleted(id)
  \/ \E data \in {Wide, Narrow} : BoardImports(data)
  \/ BoardImportFails

\* This page does not call queryProjectRows: the engine behind it is left out
\* of the choice.
BoardInit == Init /\ engine = "cache"

BoardSpec == BoardInit /\ [][BoardNext]_vars

\* ------------------------------------------------- the project service
\* What updateProject and updateProjectCharts are called with: a name with
\* blanks around it, a blank name, a list of one chart and a list of two.
Payloads ==
  {[name |-> <<" ", "b">>, description |-> <<"1", " ">>],
   [name |-> <<" ">>, description |-> <<>>]}

ChartLists ==
  {<<[id |-> 1, field |-> A]>>, <<[id |-> 1, field |-> A], [id |-> 2, field |-> AB]>>}

\* The state of the project service when the page of a project is open.
ServiceVars(promise, connections, stored, calls) ==
  /\ dbPromise' = promise
  /\ conns' = connections
  /\ projectRecord' = stored
  /\ tasks' = calls

\* What the actions of the project service leave as it is.
offService == <<engine, dbVersion, stores, cache, otherTab, leaked, pending, imp, parked,
                qry, ops, out, dataset, failed, pageVars, chart, norm, imports, boardVars>>

\* The calls before call t have started, call t has not.
IsNext(t) == tasks[t].pc = "idle" /\ \A u \in 1..(t - 1) : tasks[u].pc # "idle"

\* getDb(): the connection of dbPromise, a new one when dbPromise is null.
getDb ==
  IF dbPromise = 0
  THEN [db |-> Len(conns) + 1, conns |-> Append(conns, "open")]
  ELSE [db |-> dbPromise, conns |-> conns]

\* updateProject, up to the await of ensureProjectsStore: a blank name returns
\* undefined at once; otherwise getDb() hands out the connection the call will
\* use (the projects store exists).
UpdateProjectStarts(t, payload) ==
  /\ IsNext(t)
  /\ IF Trim(payload.name) = <<>>
     THEN ServiceVars(dbPromise, conns, projectRecord,
            [tasks EXCEPT ![t] = [@ EXCEPT !.op = "updateProject", !.pc = "done",
                                           !.outcome = "undefined"]])
     ELSE ServiceVars(getDb.db, getDb.conns, projectRecord,
            [tasks EXCEPT ![t] = [@ EXCEPT !.op = "updateProject", !.pc = "opened",
                                           !.name = Trim(payload.name),
                                           !.description = Trim(payload.description),
                                           !.db = getDb.db]])
  /\ UNCHANGED offService

\* updateProjectCharts, up to the await of ensureProjectsStore.
UpdateProjectChartsStarts(t, charts) ==
  /\ IsNext(t)
  /\ ServiceVars(getDb.db, getDb.conns, projectRecord,
       [tasks EXCEPT ![t] = [@ EXCEPT !.op = "updateProjectCharts", !.pc = "opened",
                                      !.charts = normalizedCharts(charts),
                                      !.db = getDb.db]])
  /\ UNCHANGED offService

\* await db.get(PROJECTS_STORE_NAME, id): the record as it is stored now; on
\* a connection that has been closed the call throws and goes to its finally
\* block.
GetsProject(t) ==
  /\ tasks[t].pc = "opened"
  /\ ServiceVars(dbPromise, conns, projectRecord,
       [tasks EXCEPT ![t] =
          IF conns[tasks[t].db] = "open"
          THEN [@ EXCEPT !.pc = "got", !.existing = projectRecord]
          ELSE [@ EXCEPT !.pc = "finally", !.outcome = "thrown"]])
  /\ UNCHANGED offService

\* {...existingProject, name, description} or {...existingProject, charts}
UpdatedProject(task) ==
  IF task.op = "updateProject"
  THEN [task.existing EXCEPT !.name = task.name, !.description = task.description]
  ELSE [task.existing EXCEPT !.charts = task.charts]

\* await db.put(PROJECTS_STORE_NAME, updatedProject): the record read earlier,
\* with the fields of this call replaced, is stored; on a connection that
\* has been closed the call throws.
PutsProject(t) ==
  /\ tasks[t].pc = "got"
  /\ IF conns[tasks[t].db] = "open"
     THEN ServiceVars(dbPromise, conns, UpdatedProject(tasks[t]),
            [tasks EXCEPT ![t] = [@ EXCEPT !.pc = "finally", !.outcome = "ok"]])
     ELSE ServiceVars(dbPromise, conns, projectRecord,
            [tasks EXCEPT ![t] = [@ EXCEPT !.pc = "finally", !.outcome = "thrown"]])
  /\ UNCHANGED offService

\* finally { releaseDb(db) }: db.close(); dbPromise = null
ReleasesDb(t) ==
  /\ tasks[t].pc = "finally"
  /\ ServiceVars(0, [conns EXCEPT ![tasks[t].db] = "closed"], projectRecord,
       [tasks EXCEPT ![t] = [@ EXCEPT !.pc = "done"]])
  /\ UNCHANGED offService

\* The page calls updateProject and updateProjectCharts without waiting for
\* the calls in flight, and the calls go on at their awaits in any order.
ServiceNext ==
  \/ \E t \in 1..MaxTasks, payload \in Payloads : UpdateProjectStarts(t, payload)
  \/ \E t \in 1..MaxTasks, charts \in ChartLists : UpdateProjectChartsStarts(t, charts)
  \/ \E t \in 1..MaxTasks : GetsProject(t)
  \/ \E t \in 1..MaxTasks : PutsProject(t)
  \/ \E t \in 1..MaxTasks : ReleasesDb(t)

\* The project service does not call queryProjectRows either.
ServiceInit == Init /\ engine = "cache"

ServiceSpec == ServiceInit /\ [][ServiceNext]_vars

\* ================================================================= claims
\* The query that completed last returned (did not throw).
QueryReturned == out.op = "query" /\ out.result.status = "ok"

\* The filter of a request is applied: a filter field and a filter value that
\* is not empty once trimmed.
FilterApplied(params) ==
  Truthy(params.filterField) /\ NormalizedFilterValue(params) # <<>>

\* The matching semantics of an engine: starts-with for the index engine,
\* contains for the cache engine, both ignoring case.
Matches(eng, text, needle) ==
  IF eng = "idx" THEN StartsWith(ToLowerCase(text), ToLowerCase(needle))
  ELSE Includes(ToLowerCase(text), ToLowerCase(needle))

\* The records of a store whose value at the filter field matches.
MatchingRecs(eng, store, params) ==
  IF FilterApplied(params)
  THEN SelectSeq(store.recs, LAMBDA rec :
         /\ HasKey(rec.row, params.filterField)
         /\ Matches(eng, ValueOf(rec.row, params.filterField),
                    NormalizedFilterValue(params)))
  ELSE store.recs

\* The engine's answer to a request on the present store and cache.
Answer(p, params) ==
  IF engine = "idx" THEN IdxQuery(stores[p], p, params)
  ELSE CacheQuery(IF cache[p].cached THEN cache[p] ELSE LoadedEntry(stores[p]), p, params)

\* The request that asks for everything on one page.
Unpaged(p, params) ==
  [params EXCEPT !.page = 1, !.pageSize = Len(stores[p].recs) + 1]

\* C1: the total a query returns is the number of stored rows whose value at
\* the filter field matches the trimmed filter value (starts-with or contains,
\* ignoring case), and the number of stored rows when no filter is applied.
C1_TotalCountsMatchingStoredRows ==
  QueryReturned =>
    out.result.total = Len(MatchingRecs(engine, stores[out.project], out.params))

\* C2: page k is the slice [(k-1)*pageSize, k*pageSize) of the request's whole
\* filtered and sorted sequence; total is the length of that sequence; a page
\* beyond the last is empty with the same total, and paging never makes a
\* request throw.
C2_PageIsSliceOfWholeSequence ==
  out.op = "query" =>
    LET whole == Answer(out.project, Unpaged(out.project, out.params))
        first == (out.params.page - 1) * out.params.pageSize
        last == IF out.params.page * out.params.pageSize < Len(whole.rows)
                THEN out.params.page * out.params.pageSize ELSE Len(whole.rows)
    IN /\ out.result.status = whole.status
       /\ out.result.total = whole.total
       /\ whole.status = "ok" => whole.total = Len(whole.rows)
       /\ out.result.rows = [i \in 1..(IF last > first THEN last - first ELSE 0)
                               |-> whole.rows[first + i]]

C2_Witness ==
  /\ QueryReturned
  /\ out.params.page = 2
  /\ out.params.pageSize = 1
  /\ out.result.total = 2
  /\ Len(out.result.rows) = 1

\* The values a sequence of rows has at a field, in order.
ValuesAt(rows, field) == [i \in 1..Len(rows) |-> ValueOrEmpty(rows[i], field)]

Range(seq) == {seq[i] : i \in 1..Len(seq)}

\* The rows of the store that a result holds, in storage order.
InStorageOrder(p, rows) ==
  SelectSeq(toDisplayRows(stores[p].recs), LAMBDA row : row \in Range(rows))

\* Rows with equal values at the field are in storage order.
TiesInStorageOrder(p, rows, field) ==
  \A v \in Range(ValuesAt(rows, field)) :
    SelectSeq(rows, LAMBDA row : ValueOrEmpty(row, field) = v)
      = SelectSeq(InStorageOrder(p, rows), LAMBDA row : ValueOrEmpty(row, field) = v)

\* C3: for a sort field F the descending result is the ascending result
\* reversed as far as rows with distinct F values go, and in both directions
\* rows with the same F value keep their storage order.
C3_DescendingReversesAndSortIsStable ==
  (QueryReturned /\ Truthy(out.params.sortField)) =>
    LET p == out.project
        F == out.params.sortField
        asc == Answer(p, [Unpaged(p, out.params) EXCEPT !.sortDirection = "asc"]).rows
        desc == Answer(p, [Unpaged(p, out.params) EXCEPT !.sortDirection = "desc"]).rows
    IN /\ ValuesAt(desc, F) = Reverse(ValuesAt(asc, F))
       /\ TiesInStorageOrder(p, asc, F)
       /\ TiesInStorageOrder(p, desc, F)

\* The index engine's filter-then-sort strategy applied to a request whatever
\* its branch: where(filterField).startsWithIgnoreCase, count, sortBy(sortField),
\* reverse when descending, slice.
FilterThenSort(store, projectId, params) ==
  IF ~store.exists THEN EmptyResult("idx", projectId, params)
  ELSE IF ~Indexed(store.indexes, params.filterField) THEN Thrown
  ELSE IdxResult(Len(WhereStartsWithIgnoreCase(store, params.filterField,
                                               NormalizedFilterValue(params))),
                 IdxPageBy("filterThenSort", store, params), projectId, params)

\* C4: when the filter field is the sort field, the query returns the rows (in
\* order, page by page) and the total that the filter-then-sort strategy of
\* the other branch returns for the same request.
C4_CombinedEqualsFilterThenSort ==
  (engine = "idx" /\ out.op = "query" /\ QueryBranch(out.params) = "combined") =>
    out.result = FilterThenSort(stores[out.project], out.project, out.params)

C4_Witness ==
  /\ engine = "idx"
  /\ QueryReturned
  /\ QueryBranch(out.params) = "combined"
  /\ out.params.sortDirection = "desc"
  /\ out.result.total = 2
  /\ Len(out.result.rows) = 2
  /\ out.result.rows[1] # out.result.rows[2]

\* C5: after a successful import of D, the query with page 1, page size
\* len(D), no filter and no sort returns the normalized rows of D in order.
C5_ImportThenQueryRoundTrip ==
  ( /\ QueryReturned
    /\ dataset[out.project].imported
    /\ out.params.page = 1
    /\ out.params.pageSize = Max(Len(dataset[out.project].rows), 1)
    /\ ~Truthy(out.params.sortField)
    /\ ~FilterApplied(out.params) )
  => out.result.rows = dataset[out.project].rows

\* The last successful import into the project replaced an import of another
\* field set.
FieldSetChanged(d) == d.superseded /\ Range(d.oldFields) # Range(d.fields)

\* The request names only fields of the dataset.
UsesFieldsOf(d, params) ==
  /\ Truthy(params.filterField) => params.filterField \in Range(d.fields)
  /\ Truthy(params.sortField) => params.sortField \in Range(d.fields)

\* C6: after a re-import with another field set, a later query returns only
\* rows and fields of the new dataset, and a query that filters or sorts on a
\* field of the new dataset returns.
C6_ReimportReplacesSchema ==
  (out.op = "query" /\ out.alone /\ FieldSetChanged(dataset[out.project])) =>
    LET d == dataset[out.project]
    IN /\ UsesFieldsOf(d, out.params) => out.result.status = "ok"
       /\ out.result.status = "ok" =>
            /\ Range(out.result.rows) \subseteq Range(d.rows)
            /\ Range(out.result.fields) \subseteq Range(d.fields)

\* The engine's answer to a request on one state of the project's store.
AnswerOn(store, p, params) ==
  IF engine = "idx" THEN IdxQuery(store, p, params)
  ELSE CacheQuery(LoadedEntry(store), p, params)

\* C7: the rows and the total a query returns are those of one state the
\* project's store was in during the query (before or after an overlapping
\* import, never a mix of the two).
C7_QuerySeesOneStoreState ==
  QueryReturned =>
    \E s \in out.seen :
      /\ out.result.rows = AnswerOn(s, out.project, out.params).rows
      /\ out.result.total = AnswerOn(s, out.project, out.params).total

\* C8: an import that fails on a parser error reports the first parser
\* error's message and leaves every store and every cache entry as it was.
C8_ParseErrorMutatesNothing ==
  (out.op = "import" /\ out.status = "parseError") =>
    /\ out.message = FirstError
    /\ stores = out.before
    /\ cache = out.cacheBefore

\* C9: after an import into p reported a storage failure, the store of p is
\* what it was before that import, at every later state.
C9_FailedImportNeverTakesEffect ==
  failed.active => stores[failed.project] = failed.before

\* C10: a query of a project without a store returns no rows, no fields,
\* total 0 and the description of the request, and creates no store.
C10_NoStoreQueryIsEmpty ==
  (out.op = "query" /\ ~out.before[out.project].exists) =>
    /\ out.result = Returned(<<>>, <<>>, 0,
                             buildSqlLikeQuery(engine, out.project, out.params))
    /\ stores = out.before

C10_Witness ==
  /\ QueryReturned
  /\ ~out.before[out.project].exists
  /\ FilterApplied(out.params)
  /\ Truthy(out.params.sortField)
  /\ out.params.page = 2
  /\ out.result.sql.offset = out.params.pageSize

\* The engine's answer to a request on the stores and the cache a call found
\* when it started.
AnswerAt(storesThen, cacheThen, p, params) ==
  IF engine = "idx" THEN IdxQuery(storesThen[p], p, params)
  ELSE CacheQuery(IF cacheThen[p].cached THEN cacheThen[p]
                  ELSE LoadedEntry(storesThen[p]), p, params)

\* A request with a page and a page size of at least one.
Clamped(params) ==
  [params EXCEPT !.page = IF @ < 1 THEN 1 ELSE @,
                 !.pageSize = IF @ < 1 THEN 1 ELSE @]

\* C11: for every integer page and pageSize, zero and negative ones included,
\* a query returns (or throws) as the request with page replaced by
\* max(page, 1) and pageSize by max(pageSize, 1) does on the same state: the
\* same rows, the same total and the same LIMIT and OFFSET.
C11_PagingValuesAreClamped ==
  out.op = "query" =>
    LET clamped == AnswerAt(out.before, out.cacheBefore, out.project,
                            Clamped(out.params))
    IN /\ out.result.status = clamped.status
       /\ out.result.rows = clamped.rows
       /\ out.result.total = clamped.total
       /\ out.result.sql.limit = clamped.sql.limit
       /\ out.result.sql.offset = clamped.sql.offset

\* A request with page and pageSize below one returned the first row of two.
C11_Witness ==
  /\ QueryReturned
  /\ out.params.page < 0
  /\ out.params.pageSize < 0
  /\ out.result.total = 2
  /\ Len(out.result.rows) = 1
  /\ out.result.sql.limit = 1
  /\ out.result.sql.offset = 0

\* The request with its filter value trimmed, and the request without filter.
Trimmed(params) ==
  [params EXCEPT !.filterValue = IF @ = Undefined THEN Undefined ELSE Trim(@)]

Unfiltered(params) ==
  [params EXCEPT !.filterField = Undefined, !.filterValue = Undefined]

\* C12: a query returns the rows and the total of the same request with the
\* filter value trimmed; when the filter field is absent, or the filter value
\* is absent, empty or blank, it returns the rows and the total of the same
\* request without filter.
C12_FilterValueIsTrimmed ==
  out.op = "query" =>
    LET trimmed == AnswerAt(out.before, out.cacheBefore, out.project,
                            Trimmed(out.params))
        unfiltered == AnswerAt(out.before, out.cacheBefore, out.project,
                               Unfiltered(out.params))
        blank == \/ out.params.filterValue = Undefined
                 \/ Trim(out.params.filterValue) = <<>>
    IN /\ out.result.status = trimmed.status
       /\ out.result.rows = trimmed.rows
       /\ out.result.total = trimmed.total
       /\ (out.params.filterField = Undefined \/ blank) =>
            /\ out.result.status = unfiltered.status
            /\ out.result.rows = unfiltered.rows
            /\ out.result.total = unfiltered.total

\* A filter value padded with blanks selected one row of two.
C12_Witness ==
  /\ QueryReturned
  /\ Truthy(out.params.filterField)
  /\ out.params.filterValue # Undefined
  /\ Trim(out.params.filterValue) # out.params.filterValue
  /\ Trim(out.params.filterValue) # <<>>
  /\ Len(out.before[out.project].recs) = 2
  /\ out.result.total = 1

\* C13: the fields of a query result are the keys of the first returned row
\* when the returned page has rows, and no fields when the returned page is
\* empty.
C13_FieldsAreThoseOfThePage ==
  QueryReturned =>
    out.result.fields = IF out.result.rows = <<>> THEN <<>>
                        ELSE ObjectKeys(out.result.rows[1])

\* C14: when deleteProjectTable(p) has completed, p has no store (no rows,
\* no indexes, no key generator), every query of p returns the empty result
\* and every import into p succeeds; when p had no store, no store has
\* changed and nothing was raised.
C14_DeleteRemovesTheStore ==
  out.op = "delete" =>
    /\ out.status = "ok"
    /\ ~out.before[out.project].exists => stores = out.before
    /\ stores[out.project] = NoStore
    /\ \A params \in EdgeRequests :
         Answer(out.project, params) = EmptyResult(engine, out.project, params)
    /\ \A csv \in {TwoRows, MoreFields, WithId} :
         ImportCsv(engine, stores[out.project], csv).status = "ok"

\* C15: a query changes no store (which stores exist, their rows in order,
\* their indexes and key generators, the database version is not part of a
\* store), and as long as no import and no deletion follows it, the same
\* request gets the same result again.
C15_QueryIsReadOnly ==
  out.op = "query" =>
    /\ stores = out.before
    /\ Answer(out.project, out.params) = out.result

\* C16: whenever no loadRows call is in flight except superseded ones, the
\* page displays the rows, fields, total and description of the request it
\* issued last (or the error of that request), whatever superseded calls
\* settled before or after it and in whatever order.
C16_LatestRequestIsShown ==
  (view.mounted /\ \A l \in loads : l.isCancelled) =>
    LET latest == Answer("p", ParamsOf(view))
    IN IF latest.status = "ok"
       THEN /\ shown.rows = latest.rows
            /\ shown.fields = latest.fields
            /\ shown.total = latest.total
            /\ shown.sql = latest.sql
            /\ shown.errorMessage = ""
       ELSE shown.errorMessage = LoadFailed

\* The latest request has settled while superseded calls for other requests
\* are still in flight, and its second page is displayed.
C16_Witness ==
  /\ view.mounted
  /\ loads # {}
  /\ \A l \in loads : l.isCancelled /\ l.view # view
  /\ view.page = 2
  /\ shown.rows # <<>>
  /\ shown.sql.offset = PAGE_SIZE

\* The engine's answer to a request on a dataset: in the index engine on the
\* store an import of it into a project without store creates, in the cache
\* engine on the rows themselves.
AnswerOnDataset(data, p, params) ==
  IF engine = "idx"
  THEN IdxQuery(IdxImportStore(NoStore, data.fields, data.rows).store, p, params)
  ELSE CacheQuery(CacheEntry(data.rows, data.fields), p, params)

\* C17: a query of p that runs while no import is in flight or queued, after
\* an import of a dataset into p has completed, returns what the request
\* selects from that dataset: its rows, its total and its fields.
C17_QueryAfterImportSeesTheDataset ==
  (out.op = "query" /\ out.alone /\ dataset[out.project].imported) =>
    LET expected == AnswerOnDataset(dataset[out.project], out.project, out.params)
    IN /\ out.result.status = expected.status
       /\ out.result.rows = expected.rows
       /\ out.result.total = expected.total
       /\ out.result.fields = expected.fields

\* What a project's store holds is what the last completed import into that
\* project wrote, and nothing when no import into it has completed.
HoldsItsDataset(x) ==
  toDisplayRows(stores[x].recs) =
    IF dataset[x].imported THEN dataset[x].rows ELSE <<>>

\* C18: imports into p and into q, overlapping in time or not, all complete
\* (none reports a failure), and whenever no import into a project is in
\* flight its store holds the rows of the last import into that project:
\* nothing done for the other project has changed them.
C18_ProjectsAreIndependent ==
  /\ ~failed.active
  /\ out.op = "import" => out.status = "ok"
  /\ \A x \in Projects :
       (imp.project # x /\ parked.project # x) => HoldsItsDataset(x)

\* The answer of the engine that is not running to a request on a dataset.
OtherEngineAnswer(data, p, params) ==
  IF engine = "idx"
  THEN CacheQuery(CacheEntry(data.rows, data.fields), p, params)
  ELSE IdxQuery(IdxImportStore(NoStore, data.fields, data.rows).store, p, params)

\* C19: on the same imported dataset and the same request, the index engine
\* and the cache engine return the same rows in the same order, the same
\* total and the same fields (and one throws only when the other does).
C19_EnginesAgree ==
  (out.op = "query" /\ dataset[out.project].imported) =>
    LET other == OtherEngineAnswer(dataset[out.project], out.project, out.params)
    IN /\ out.result.status = other.status
       /\ out.result.rows = other.rows
       /\ out.result.total = other.total
       /\ out.result.fields = other.fields

\* C20: the description of a query that returned agrees with what was
\* executed: it has a WHERE clause exactly when the filter was applied, on
\* the filter field and with the pattern of the trimmed filter value (value%
\* in the index engine, %value% in the cache engine); it has ORDER BY exactly
\* when a sort field was given, DESC for "desc" and ASC otherwise; its LIMIT
\* is max(pageSize, 1) and its OFFSET (max(page, 1) - 1) * max(pageSize, 1).
C20_DescriptionAgreesWithExecution ==
  QueryReturned =>
    LET sql == out.result.sql
        params == out.params
        pageSize == IF params.pageSize < 1 THEN 1 ELSE params.pageSize
        page == IF params.page < 1 THEN 1 ELSE params.page
    IN /\ (sql.where # <<>>) <=> FilterApplied(params)
       /\ sql.where # <<>> =>
            /\ sql.where[1].field = params.filterField
            /\ sql.where[1].like =
                 LikePattern(engine, NormalizedFilterValue(params))
       /\ (sql.orderBy # <<>>) <=> Truthy(params.sortField)
       /\ sql.orderBy # <<>> =>
            /\ sql.orderBy[1].field = params.sortField
            /\ sql.orderBy[1].dir =
                 (IF params.sortDirection = "desc" THEN "DESC" ELSE "ASC")
       /\ sql.limit = pageSize
       /\ sql.offset = (page - 1) * pageSize

\* The bucket a row belongs to: its value of the field without the surrounding
\* blanks, or the label when that is empty or the row has no such field.
BucketOf(row, field) ==
  LET text == IF HasKey(row, field) THEN ValueOf(row, field) ELSE <<>>
  IN IF \A i \in 1..Len(text) : text[i] = " " THEN EmptyLabel ELSE Trim(text)

\* C21: the chart of rows on a field has exactly one bucket for every bucket
\* value of the rows (empty, blank and missing values share the bucket
\* "(Empty)"), the count of a bucket is the number of rows with that value, so
\* the counts add up to the number of rows, and the buckets come by count
\* descending, equal counts by value ascending ignoring case.
C21_ChartCountsEveryRowOnce ==
  chart.built =>
    LET data == chart.data
        rows == chart.rows
        RowsOf(value) == {i \in 1..Len(rows) : BucketOf(rows[i], chart.field) = value}
    IN /\ {data[i].value : i \in 1..Len(data)}
            = {BucketOf(rows[i], chart.field) : i \in 1..Len(rows)}
       /\ \A i, j \in 1..Len(data) : data[i].value = data[j].value => i = j
       /\ \A i \in 1..Len(data) : data[i].count = Cardinality(RowsOf(data[i].value))
       /\ \A i, j \in 1..Len(data) :
            i < j => \/ data[i].count > data[j].count
                     \/ /\ data[i].count = data[j].count
                        /\ LocaleCompareBase(data[i].value, data[j].value) <= 0

\* A chart of three rows: two buckets of different counts, the empty one last.
C21_Witness ==
  /\ chart.built
  /\ Len(chart.rows) = 3
  /\ Len(chart.data) = 2
  /\ chart.data[1] = [value |-> <<"a">>, count |-> 2]
  /\ chart.data[2] = [value |-> EmptyLabel, count |-> 1]
  /\ \E i \in 1..3 : ValueOf(chart.rows[i], chart.field) = <<" ", "a", " ">>

\* C23: the rows of a sorted query come in the order of the sort field's text
\* compared ignoring case and with runs of digits by their number ("10" after
\* "2", "a" and "A" equal), ascending unless sortDirection is "desc"; a
\* missing sortDirection is ascending.
C23_SortIgnoresCaseAndReadsNumbers ==
  (QueryReturned /\ Truthy(out.params.sortField)) =>
    LET rows == out.result.rows
        field == out.params.sortField
        sign == IF out.params.sortDirection = "desc" THEN -1 ELSE 1
    IN \A i \in 1..(Len(rows) - 1) :
         LocaleCompare(ValueOrEmpty(rows[i], field),
                       ValueOrEmpty(rows[i + 1], field)) * sign <= 0

\* A field that is named by a request and is no field of the dataset.
Lacking(data, field) ==
  Truthy(field) /\ \A i \in 1..Len(data.fields) : data.fields[i] # field

\* C24: a query that filters or sorts on a field the rows of the imported
\* dataset lack does not throw; with a filter text that is not blank it
\* matches no row; a sort on such a field alone drops no row: total is the
\* number of rows and the page is as long as the total allows.
C24_MissingFieldIsEmptyText ==
  (out.op = "query" /\ dataset[out.project].imported) =>
    LET data == dataset[out.project]
        params == out.params
        pageSize == IF params.pageSize < 1 THEN 1 ELSE params.pageSize
        offset == ((IF params.page < 1 THEN 1 ELSE params.page) - 1) * pageSize
        left == IF Len(data.rows) > offset THEN Len(data.rows) - offset ELSE 0
    IN /\ (Lacking(data, params.filterField) \/ Lacking(data, params.sortField))
            => out.result.status = "ok"
       /\ (Lacking(data, params.filterField) /\ FilterApplied(params))
            => out.result.total = 0 /\ out.result.rows = <<>>
       /\ (Lacking(data, params.sortField) /\ ~FilterApplied(params))
            => /\ out.result.total = Len(data.rows)
               /\ Len(out.result.rows) = (IF left < pageSize THEN left ELSE pageSize)

\* The entries of a record whose key is not blank.
NamedEntries(record) == SelectSeq(record.entries, LAMBDA e : \E i \in 1..Len(e.k) : e.k[i] # " ")

\* The records that survive normalization: mappings with a key that is not blank.
Surviving(data) == SelectSeq(data, LAMBDA r : r.obj /\ NamedEntries(r) # <<>>)

\* C25: in the output of normalizeCsvRows every row has a key, every key is
\* trimmed and not empty, every value is text (the empty text for null and
\* undefined, the value itself otherwise); the rows are the surviving records
\* (mappings with at least one key that is not blank), in their order, each
\* with its named entries in their order; the fields are the keys of the
\* first row, or none without rows.
C25_NormalizedRows ==
  norm.done =>
    LET rows == norm.rows
        kept == Surviving(norm.data)
    IN /\ \A i \in 1..Len(rows) :
            /\ Len(rows[i]) >= 1
            /\ \A j \in 1..Len(rows[i]) :
                 /\ rows[i][j].k # <<>>
                 /\ rows[i][j].k = Trim(rows[i][j].k)
                 /\ rows[i][j].v \notin {Null, Undefined}
       /\ Len(rows) = Len(kept)
       /\ \A i \in 1..Len(kept) :
            LET named == NamedEntries(kept[i])
            IN /\ Len(rows[i]) = Len(named)
               /\ \A j \in 1..Len(named) :
                    /\ rows[i][j].k = named[j].k
                    /\ rows[i][j].v = (IF named[j].v \in {Null, Undefined} THEN <<>>
                                       ELSE named[j].v)
       /\ norm.fields = (IF rows = <<>> THEN <<>> ELSE ObjectKeys(rows[1]))

\* Three records, one that is no mapping, one with a blank key only and one
\* with a null value under a padded header and a blank header: one row.
C25_Witness ==
  /\ norm.done
  /\ Len(norm.data) = 3
  /\ ~norm.data[1].obj
  /\ norm.data[2].obj /\ ObjectKeys(norm.data[2].entries) = <<<<>>>>
  /\ norm.data[3].obj /\ norm.data[3].entries[1].v = Null
  /\ norm.rows = <<<<[k |-> A, v |-> <<>>]>>>>
  /\ norm.fields = <<A>>

\* C26: in the cache engine, while no import is in flight or queued, an entry
\* of projectRowsCache holds the rows of the project's store in stored order
\* without their id, and the fields of the first of them; and a query that
\* was answered from the cache while no import ran returned what the same
\* query returns on an entry loaded from the store.
C26_CacheHoldsTheStoredRows ==
  engine = "cache" =>
    /\ Quiet => \A p \in Projects :
                  cache[p].cached => cache[p] = LoadedEntry(stores[p])
    /\ (QueryReturned /\ out.alone /\ out.cacheBefore[out.project].cached) =>
         LET reloaded == CacheQuery(LoadedEntry(out.before[out.project]),
                                    out.project, out.params)
         IN /\ out.result.rows = reloaded.rows
            /\ out.result.fields = reloaded.fields
            /\ out.result.total = reloaded.total

\* C27: after an import has succeeded on the page, every loadRows call that
\* started before it is superseded (its result is not displayed), and once
\* no call is in flight except superseded ones the page displays the rows,
\* the fields and the total its request selects from the imported contents.
C27_ImportedDataIsShown ==
  (view.mounted /\ imports > 0 /\ out.op = "import" /\ out.status = "ok") =>
    /\ \A l \in loads : l.imports < imports => l.isCancelled
    /\ (\A l \in loads : l.isCancelled) =>
         LET latest == Answer("p", ParamsOf(view))
         IN latest.status = "ok" =>
              /\ shown.rows = latest.rows
              /\ shown.fields = latest.fields
              /\ shown.total = latest.total

\* C28: whenever no loadRows call is in flight, the page number of the page
\* is at least 1 and at most totalPages = max(1, ceil(totalRows / PAGE_SIZE)).
C28_PageIsWithinTotalPages ==
  (view.mounted /\ loads = {}) =>
    /\ 1 <= view.page
    /\ view.page <= TotalPages(shown.total)

\* The rows a bucket list counts.
RECURSIVE CountSum(_)
CountSum(data) == IF data = <<>> THEN 0 ELSE Head(data).count + CountSum(Tail(data))

\* No loadRows call of the page with charts is in flight.
Loaded == board.mounted /\ fetches = {}

C29_FilteringKeepsTheCharts ==
  [][(board.mounted /\ table' = table /\ fetches' # fetches) =>
       LET ofDataset(c) == \E i \in 1..Len(table.fields) : table.fields[i] = c.field
           inPlace == SelectSeq(board.charts, LAMBDA c :
                        \E i \in 1..Len(board'.charts) : board'.charts[i] = c)
       IN /\ board'.charts = inPlace
          /\ \A i \in 1..Len(board.charts) :
               ofDataset(board.charts[i]) =>
                 \E j \in 1..Len(board'.charts) : board'.charts[j] = board.charts[i]]_vars

\* C30: for calls of projectService that overlap, the connection of a call
\* that has not reached its finally block is open, no call throws, and once
\* an updateProject and an updateProjectCharts have both completed the stored
\* record holds the name and description of the one and the charts of the
\* other.
C30_OverlappingCallsDoNotInterfere ==
  /\ \A t \in 1..MaxTasks :
       tasks[t].pc \in {"opened", "got"} => conns[tasks[t].db] = "open"
  /\ \A t \in 1..MaxTasks : tasks[t].outcome # "thrown"
  /\ \A t, u \in 1..MaxTasks :
       (/\ tasks[t].pc = "done" /\ tasks[t].outcome = "ok" /\ tasks[t].op = "updateProject"
        /\ tasks[u].pc = "done" /\ tasks[u].outcome = "ok"
        /\ tasks[u].op = "updateProjectCharts") =>
         /\ projectRecord.name = tasks[t].name
         /\ projectRecord.description = tasks[t].description
         /\ projectRecord.charts = tasks[u].charts
====
